---- MODULE Spec2Model ----
(***************************************************************************)
(* A model of the DNS wire codec of moutoum/dns-rs: the 512-byte           *)
(* BytePacketBuffer of the protocol crate (and of the older dns crate),    *)
(* the qname encoder and decoders, the header codec and the record codec.  *)
(*                                                                         *)
(* Strings are sequences of character codes (46 is '.'), bytes are         *)
(* naturals below 256.  A buffer value is a record [buf, pos], where buf,  *)
(* the array [u8; 512], is kept as the function from the indices of its    *)
(* non-zero bytes to these bytes (every other byte of the array is 0).     *)
(* Every                                                                   *)
(* fallible operation returns an outcome [kind, b, val] where kind is      *)
(* "ok", "err" (Error::OutOfRange, val = the `expected` field) or "panic"  *)
(* (an assert!, an unwrap() of an Err, or an index out of bounds), and b   *)
(* is the buffer the call leaves behind.                                   *)
(***************************************************************************)
EXTENDS Integers, Sequences, FiniteSets, TLC

VARIABLES
    buf,    \* BytePacketBuffer.buf, as its non-zero bytes
    pos,    \* BytePacketBuffer.pos
    pc,     \* position of the scenario being run
    scn,    \* the inputs of the scenario and of its calls
    pre,    \* the cursor when the current operation was called
    ret,    \* the outcome of the last call: [kind, val]
    dst     \* the locals of the qname decoder's loop

vars == <<buf, pos, pc, scn, pre, ret, dst>>

DEFAULT_BUFFER_SIZE == 512

Byte == 0..255
Index == 0..(DEFAULT_BUFFER_SIZE - 1)

(***************************************************************************)
(* Integer arithmetic of the source: shifts, masks and casts.              *)
(***************************************************************************)
RECURSIVE BitAnd(_, _)
BitAnd(a, b) ==
    IF a = 0 \/ b = 0 THEN 0
    ELSE ((a % 2) * (b % 2)) + 2 * BitAnd(a \div 2, b \div 2)

RECURSIVE BitOr(_, _)
BitOr(a, b) ==
    IF a = 0 THEN b
    ELSE IF b = 0 THEN a
    ELSE (IF (a % 2) + (b % 2) > 0 THEN 1 ELSE 0) + 2 * BitOr(a \div 2, b \div 2)

RECURSIVE BitXor(_, _)
BitXor(a, b) ==
    IF a = 0 THEN b
    ELSE IF b = 0 THEN a
    ELSE (((a % 2) + (b % 2)) % 2) + 2 * BitXor(a \div 2, b \div 2)

RECURSIVE Pow2(_)
Pow2(n) == IF n = 0 THEN 1 ELSE 2 * Pow2(n - 1)

Shr(a, n) == a \div Pow2(n)
\* `<<` on a value of `width` bits: the bits shifted out are lost.
Shl(a, n, width) == (a * Pow2(n)) % Pow2(width)
AsU8(a) == a % 256
AsU16(a) == a % 65536
\* A u32 is kept as the pair <<high 16 bits, low 16 bits>>: the model checker's
\* integers are 32-bit signed and cannot hold every u32.
U32(hi, lo) == <<hi, lo>>
BoolAsU8(x) == IF x THEN 1 ELSE 0

(***************************************************************************)
(* Outcomes.                                                               *)
(***************************************************************************)
\* Unit is the value of Ok(()); an error is Error::OutOfRange { expected, max }.
Unit == <<>>
Ok(b, v) == [kind |-> "ok", b |-> b, val |-> v]
Err(b, expected) ==
    [kind |-> "err", b |-> b, val |-> <<expected, DEFAULT_BUFFER_SIZE>>]
Panic(b) == [kind |-> "panic", b |-> b, val |-> Unit]

\* The element of a one-element set.  One({e(x) : x \in {v}}) is e(v) with v
\* computed once, however often e uses it.
One(S) == CHOOSE v \in S : TRUE

(***************************************************************************)
(* protocol::byte_packet_buffer::BytePacketBuffer                          *)
(***************************************************************************)
\* The byte a[i] of the array a, for an index i of the array.
At(a, i) == IF i \in DOMAIN a THEN a[i] ELSE 0

\* The array a after a[at..at + Len(data)] has been overwritten with data.
Put(a, at, data) ==
    LET over == at..(at + Len(data) - 1)
    IN  [j \in (DOMAIN a \ over) \cup {k \in over : data[k - at + 1] # 0} |->
            IF j \in over THEN data[j - at + 1] ELSE a[j]]

new == [buf |-> [i \in {} |-> 0], pos |-> 0]

from_raw_data(data) ==
    LET min == IF Len(data) < DEFAULT_BUFFER_SIZE THEN Len(data)
               ELSE DEFAULT_BUFFER_SIZE
    IN  [buf |-> Put(new.buf, 0, SubSeq(data, 1, min)), pos |-> 0]

bytes(b) == [i \in 1..b.pos |-> At(b.buf, i - 1)]

position(b) == b.pos

\* Mutant of seek: the cursor stops one byte before p.
seek_Before(b, p) ==
    IF p > DEFAULT_BUFFER_SIZE THEN Err(b, p)
    ELSE Ok([b EXCEPT !.pos = IF p > 0 THEN p - 1 ELSE 0], Unit)

seek(b, p) ==
    IF p > DEFAULT_BUFFER_SIZE THEN Err(b, p)
    ELSE Ok([b EXCEPT !.pos = p], Unit)

serialize_u8(b, value) ==
    IF b.pos + 1 > DEFAULT_BUFFER_SIZE THEN Err(b, b.pos + 1)
    ELSE Ok([buf |-> Put(b.buf, b.pos, <<value>>), pos |-> b.pos + 1], Unit)

serialize_u16(b, value) ==
    IF b.pos + 2 > DEFAULT_BUFFER_SIZE THEN Err(b, b.pos + 2)
    ELSE Ok([buf |-> Put(b.buf, b.pos, <<AsU8(Shr(value, 8)), AsU8(value)>>),
             pos |-> b.pos + 2], Unit)

\* value >> 24, >> 16, >> 8 and value itself, each cast to u8, on the halves.
serialize_u32(b, value) ==
    IF b.pos + 4 > DEFAULT_BUFFER_SIZE THEN Err(b, b.pos + 4)
    ELSE Ok([buf |-> Put(b.buf, b.pos,
                         <<AsU8(Shr(value[1], 8)), AsU8(value[1]),
                           AsU8(Shr(value[2], 8)), AsU8(value[2])>>),
             pos |-> b.pos + 4], Unit)

\* `self.buf[at] = ..; self.buf[at + 1] = ..;`: the bytes are stored one by
\* one, and the store at an index beyond the array panics after the stores
\* before it are done.
set_bytes(b, at, data) ==
    IF at + Len(data) <= DEFAULT_BUFFER_SIZE
    THEN Ok([b EXCEPT !.buf = Put(b.buf, at, data)], Unit)
    ELSE Panic([b EXCEPT !.buf =
                   Put(b.buf, at,
                       SubSeq(data, 1,
                              IF at >= DEFAULT_BUFFER_SIZE THEN 0
                              ELSE DEFAULT_BUFFER_SIZE - at))])

set_u8(b, at, value) == set_bytes(b, at, <<value>>)

\* Mutant of set_u16: the cursor is left behind the bytes written.
set_u16_Moving(b, at, value) ==
    One({[r EXCEPT !.b.pos = at + 2] :
            r \in {set_bytes(b, at, <<AsU8(Shr(value, 8)), AsU8(value)>>)}})

set_u16(b, at, value) ==
    set_bytes(b, at, <<AsU8(Shr(value, 8)), AsU8(value)>>)

set_u32(b, at, value) ==
    set_bytes(b, at, <<AsU8(Shr(value[1], 8)), AsU8(value[1]),
                       AsU8(Shr(value[2], 8)), AsU8(value[2])>>)

\* str::split("."): the pieces between the dots; "" gives one empty piece.
RECURSIVE split(_)
split(s) ==
    IF \A i \in 1..Len(s) : s[i] # 46 THEN <<s>>
    ELSE LET d == CHOOSE i \in 1..Len(s) :
                      s[i] = 46 /\ \A j \in 1..(i - 1) : s[j] # 46
         IN  <<SubSeq(s, 1, d - 1)>> \o split(SubSeq(s, d + 1, Len(s)))

\* Mutant of serialize_labels: the cursor is not advanced past a label's
\* bytes (`self.pos += len` is missing).
RECURSIVE serialize_labels_NoAdvance(_, _, _)
serialize_labels_NoAdvance(b, labels, i) ==
    IF i > Len(labels) THEN Ok(b, Unit)
    ELSE LET label == labels[i]
             len == Len(label)
             r == serialize_u8(b, AsU8(len))
         IN  IF r.kind # "ok" THEN r
             ELSE IF r.b.pos + len > DEFAULT_BUFFER_SIZE
                  THEN Err(r.b, r.b.pos + len)
             ELSE serialize_labels_NoAdvance(
                      [buf |-> Put(r.b.buf, r.b.pos, label), pos |-> r.b.pos],
                      labels, i + 1)

\* The body of serialize_qname's for loop, for the labels from index i on.
RECURSIVE serialize_labels(_, _, _)
serialize_labels(b, labels, i) ==
    IF i > Len(labels) THEN Ok(b, Unit)
    ELSE LET label == labels[i]
             len == Len(label)
             r == serialize_u8(b, AsU8(len))
         IN  IF r.kind # "ok" THEN r
             ELSE IF r.b.pos + len > DEFAULT_BUFFER_SIZE
                  THEN Err(r.b, r.b.pos + len)
             ELSE serialize_labels(
                      [buf |-> Put(r.b.buf, r.b.pos, label),
                       pos |-> r.b.pos + len],
                      labels, i + 1)

serialize_qname(b, qname) ==
    LET r == serialize_labels(b, split(qname), 1)
    IN  IF r.kind # "ok" THEN r ELSE serialize_u8(r.b, 0)

\* get_u8 guards with `pos > 512`, so index 512 reaches the array access.
get_u8(b, p) ==
    IF p > DEFAULT_BUFFER_SIZE THEN Err(b, p)
    ELSE IF p \notin Index THEN Panic(b)
    ELSE Ok(b, At(b.buf, p))

get_range(b, p, len) ==
    IF p + len > DEFAULT_BUFFER_SIZE THEN Err(b, p + len)
    ELSE Ok(b, [i \in 1..len |-> At(b.buf, p + i - 1)])

deserialize_u8(b) ==
    IF b.pos > DEFAULT_BUFFER_SIZE THEN Err(b, b.pos)
    ELSE IF b.pos \notin Index THEN Panic(b)
    ELSE LET byte == At(b.buf, b.pos)
             r == seek(b, position(b) + 1)
         IN  IF r.kind # "ok" THEN r ELSE Ok(r.b, byte)

deserialize_u16(b) ==
    LET m == deserialize_u8(b)
    IN  IF m.kind # "ok" THEN m
        ELSE LET l == deserialize_u8(m.b)
             IN  IF l.kind # "ok" THEN l
                 ELSE Ok(l.b, BitOr(Shl(m.val, 8, 16), l.val))

deserialize_u32(b) ==
    LET m == deserialize_u16(b)
    IN  IF m.kind # "ok" THEN m
        ELSE LET l == deserialize_u16(m.b)
             IN  IF l.kind # "ok" THEN l
                 ELSE Ok(l.b, U32(m.val, l.val))

read_u8(b) ==
    IF ~(b.pos < DEFAULT_BUFFER_SIZE) THEN Panic(b)
    ELSE Ok([b EXCEPT !.pos = b.pos + 1], At(b.buf, b.pos))

read_n(b, len) ==
    IF ~(b.pos + len < DEFAULT_BUFFER_SIZE) THEN Panic(b)
    ELSE LET out == get_range(b, b.pos, len)
         IN  IF out.kind # "ok" THEN Panic(b)
             ELSE LET s == seek(b, position(b) + len)
                  IN  IF s.kind # "ok" THEN Panic(b) ELSE Ok(s.b, out.val)

read_u16(b) ==
    LET f == read_u8(b)
    IN  IF f.kind # "ok" THEN f
        ELSE LET s == read_u8(f.b)
             IN  IF s.kind # "ok" THEN s
                 ELSE Ok(s.b, BitOr(Shl(f.val, 8, 16), s.val))

read_u32(b) ==
    LET r1 == read_u8(b)
    IN  IF r1.kind # "ok" THEN r1 ELSE
        LET r2 == read_u8(r1.b)
        IN  IF r2.kind # "ok" THEN r2 ELSE
            LET r3 == read_u8(r2.b)
            IN  IF r3.kind # "ok" THEN r3 ELSE
                LET r4 == read_u8(r3.b)
                IN  IF r4.kind # "ok" THEN r4
                    ELSE Ok(r4.b, U32(BitOr(Shl(r1.val, 8, 16), r2.val),
                                      BitOr(Shl(r3.val, 8, 16), r4.val)))

\* String::from_utf8_lossy on a label: an ASCII byte is its character; a byte
\* that is not ASCII is shown as U+FFFD (the labels of the input sets are
\* ASCII, so multi-byte sequences never arise).
from_utf8_lossy(label) ==
    [i \in 1..Len(label) |-> IF label[i] < 128 THEN label[i] ELSE 65533]

\* Mutant of to_lowercase: the string is left as it is.
to_lowercase_Keep(s) == s

\* str::to_lowercase on such a string.
to_lowercase(s) ==
    [i \in 1..Len(s) |-> IF s[i] >= 65 /\ s[i] <= 90 THEN s[i] + 32 ELSE s[i]]

\* The locals of a qname decoder when its loop is entered.  first_ptr,
\* last_ptr and turn are history fields (the offset of the first and of the
\* latest pointer met, -1 when none; the parity of the number of iterations
\* run, which makes an iteration a step even when it leaves every local as
\* it found it); the code has no such locals.
qname_locals(b) ==
    [out |-> <<>>, working_pos |-> position(b), jumped |-> FALSE,
     delimiter |-> <<>>, done |-> FALSE, first_ptr |-> -1, last_ptr |-> -1,
     turn |-> 0]

\* What the pointer branch records, beside what the code assigns.
MetPointer(st, at) ==
    [st EXCEPT !.first_ptr = IF st.first_ptr = -1 THEN at ELSE @,
               !.last_ptr = at]

\* Mutant of deserialize_qname_iter: the offset is taken from the second
\* pointer byte alone (the 6 low bits of the first byte are dropped).
deserialize_qname_iter_LowByteOffset(b, st) ==
    LET len == get_u8(b, st.working_pos)
        wp == st.working_pos + 1
    IN  IF len.kind # "ok" THEN len
        ELSE IF len.val = 0 THEN
            LET s == IF ~st.jumped THEN seek(b, wp) ELSE Ok(b, Unit)
            IN  IF s.kind # "ok" THEN s
                ELSE Ok(s.b, [st EXCEPT !.working_pos = wp, !.done = TRUE])
        ELSE IF BitAnd(len.val, 192) = 192 THEN
            LET s == IF ~st.jumped THEN seek(b, wp + 1) ELSE Ok(b, Unit)
            IN  IF s.kind # "ok" THEN s ELSE
                LET lsb == get_u8(s.b, wp)
                IN  IF lsb.kind # "ok" THEN lsb
                    ELSE Ok(s.b, [MetPointer(st, wp - 1) EXCEPT
                                     !.working_pos = lsb.val,
                                     !.jumped = TRUE])
        ELSE
            LET label == get_range(b, wp, len.val)
            IN  IF label.kind # "ok" THEN label
                ELSE Ok(b, [st EXCEPT
                               !.out = st.out \o st.delimiter
                                       \o to_lowercase(from_utf8_lossy(label.val)),
                               !.delimiter = <<46>>,
                               !.working_pos = wp + len.val])

\* One iteration of deserialize_qname's loop; the iteration that reads the
\* terminating zero also runs the code after the loop.
deserialize_qname_iter(b, st) ==
    LET len == get_u8(b, st.working_pos)
        wp == st.working_pos + 1
    IN  IF len.kind # "ok" THEN len
        ELSE IF len.val = 0 THEN
            LET s == IF ~st.jumped THEN seek(b, wp) ELSE Ok(b, Unit)
            IN  IF s.kind # "ok" THEN s
                ELSE Ok(s.b, [st EXCEPT !.working_pos = wp, !.done = TRUE])
        ELSE IF BitAnd(len.val, 192) = 192 THEN
            LET s == IF ~st.jumped THEN seek(b, wp + 1) ELSE Ok(b, Unit)
            IN  IF s.kind # "ok" THEN s ELSE
                LET msb == BitXor(len.val, 192)
                    lsb == get_u8(s.b, wp)
                IN  IF lsb.kind # "ok" THEN lsb
                    ELSE Ok(s.b, [MetPointer(st, wp - 1) EXCEPT
                                     !.working_pos = BitOr(Shl(msb, 8, 16), lsb.val),
                                     !.jumped = TRUE])
        ELSE
            LET label == get_range(b, wp, len.val)
            IN  IF label.kind # "ok" THEN label
                ELSE Ok(b, [st EXCEPT
                               !.out = st.out \o st.delimiter
                                       \o to_lowercase(from_utf8_lossy(label.val)),
                               !.delimiter = <<46>>,
                               !.working_pos = wp + len.val])

\* Result::unwrap: an Err panics.
unwrap(r) == IF r.kind = "ok" THEN r ELSE Panic(r.b)

\* One iteration of BytePacketBuffer::read_qname's loop (protocol crate).
read_qname_iter(b, st) ==
    LET len == unwrap(get_u8(b, st.working_pos))
        wp == st.working_pos + 1
    IN  IF len.kind # "ok" THEN len
        ELSE IF len.val = 0 THEN
            LET s == IF ~st.jumped THEN unwrap(seek(b, wp)) ELSE Ok(b, Unit)
            IN  IF s.kind # "ok" THEN s
                ELSE Ok(s.b, [st EXCEPT !.working_pos = wp, !.done = TRUE])
        ELSE IF BitAnd(len.val, 192) = 192 THEN
            LET s == IF ~st.jumped THEN unwrap(seek(b, wp + 1)) ELSE Ok(b, Unit)
            IN  IF s.kind # "ok" THEN s ELSE
                LET b1 == BitXor(len.val, 192)
                    b2 == unwrap(get_u8(s.b, wp))
                IN  IF b2.kind # "ok" THEN b2
                    ELSE Ok(s.b, [MetPointer(st, wp - 1) EXCEPT
                                     !.working_pos = BitOr(Shl(b1, 8, 16), b2.val),
                                     !.jumped = TRUE])
        ELSE
            LET label == unwrap(get_range(b, wp, len.val))
            IN  IF label.kind # "ok" THEN label
                ELSE Ok(b, [st EXCEPT
                               !.out = st.out \o st.delimiter
                                       \o to_lowercase(from_utf8_lossy(label.val)),
                               !.delimiter = <<46>>,
                               !.working_pos = wp + len.val])

(***************************************************************************)
(* dns::byte_packet_buffer::BytePacketBuffer (same fields, own methods)    *)
(***************************************************************************)
dns_seek(b, p) == [b EXCEPT !.pos = p]

dns_get_u8(b, p) ==
    IF ~(p < DEFAULT_BUFFER_SIZE) THEN Panic(b) ELSE Ok(b, At(b.buf, p))

dns_get_range(b, p, len) ==
    IF ~(p + len < DEFAULT_BUFFER_SIZE) THEN Panic(b)
    ELSE Ok(b, [i \in 1..len |-> At(b.buf, p + i - 1)])

\* One iteration of the dns crate's read_qname loop: the pointer branch
\* seeks on every pointer, `jumped` guards only the seek after the loop.
dns_read_qname_iter(b, st) ==
    LET len == dns_get_u8(b, st.working_pos)
        p == st.working_pos + 1
    IN  IF len.kind # "ok" THEN len
        ELSE IF len.val = 0 THEN
            Ok(IF ~st.jumped THEN dns_seek(b, p) ELSE b,
               [st EXCEPT !.working_pos = p, !.done = TRUE])
        ELSE IF BitAnd(len.val, 192) = 192 THEN
            LET s == dns_seek(b, p + 1)
                b1 == BitXor(len.val, 192)
                b2 == dns_get_u8(s, p)
            IN  IF b2.kind # "ok" THEN b2
                ELSE Ok(s, [MetPointer(st, p - 1) EXCEPT
                               !.working_pos = BitOr(Shl(b1, 8, 16), b2.val),
                               !.jumped = TRUE])
        ELSE
            LET label == dns_get_range(b, p, len.val)
            IN  IF label.kind # "ok" THEN label
                ELSE Ok(b, [st EXCEPT
                               !.out = st.out \o st.delimiter
                                       \o to_lowercase(from_utf8_lossy(label.val)),
                               !.delimiter = <<46>>,
                               !.working_pos = p + len.val])

\* The loop iteration of the decoder named d.
qname_iter(d, b, st) ==
    CASE d = "deserialize_qname" -> deserialize_qname_iter(b, st)
      [] d = "read_qname" -> read_qname_iter(b, st)
      [] d = "dns_read_qname" -> dns_read_qname_iter(b, st)

\* A decoder run to its return.  What an iteration does depends on the buffer,
\* on working_pos (at most DEFAULT_BUFFER_SIZE when a byte is read) and on
\* jumped, so a run of more than 2 * (DEFAULT_BUFFER_SIZE + 1) iterations has
\* met one of these twice and never returns: kind "hang".
RECURSIVE qname_loop(_, _, _, _)
qname_loop(d, b, st, fuel) ==
    IF fuel = 0 THEN [kind |-> "hang", b |-> b, val |-> Unit]
    ELSE One({IF r.kind # "ok" THEN r
              ELSE IF r.val.done THEN Ok(r.b, r.val.out)
              ELSE qname_loop(d, r.b, r.val, fuel - 1) :
                  r \in {qname_iter(d, b, st)}})

qname_decode(d, b) ==
    qname_loop(d, b, qname_locals(b), 2 * (DEFAULT_BUFFER_SIZE + 1))

deserialize_qname(b) == qname_decode("deserialize_qname", b)
read_qname(b) == qname_decode("read_qname", b)
dns_read_qname(b) == qname_decode("dns_read_qname", b)

(***************************************************************************)
(* protocol::header                                                        *)
(***************************************************************************)
\* Mutant of OpCode_from_u8: only the three low bits of the code are looked
\* at.
OpCode_from_u8_ThreeBits(num) ==
    CASE num % 8 = 1 -> "IQuery"
      [] num % 8 = 2 -> "Status"
      [] OTHER -> "Query"

OpCode_from_u8(num) ==
    CASE num = 1 -> "IQuery"
      [] num = 2 -> "Status"
      [] OTHER -> "Query"

OpCode_as_u8(opcode) ==
    CASE opcode = "Query" -> 0
      [] opcode = "IQuery" -> 1
      [] opcode = "Status" -> 2

ResultCode_from_u8(num) ==
    CASE num = 1 -> "FormError"
      [] num = 2 -> "ServerFailure"
      [] num = 3 -> "NxDomain"
      [] num = 4 -> "NotImplemented"
      [] num = 5 -> "Refused"
      [] OTHER -> "NoError"

ResultCode_as_u8(code) ==
    CASE code = "NoError" -> 0
      [] code = "FormError" -> 1
      [] code = "ServerFailure" -> 2
      [] code = "NxDomain" -> 3
      [] code = "NotImplemented" -> 4
      [] code = "Refused" -> 5

Header_new ==
    [id |-> 0, is_response |-> FALSE, opcode |-> "Query",
     authoritative_answer |-> FALSE, truncated |-> FALSE,
     recursion_desired |-> FALSE, recursion_available |-> FALSE,
     z |-> FALSE, authenticated_data |-> FALSE, checking_disabled |-> FALSE,
     result_code |-> "NoError", total_questions |-> 0,
     total_answer_records |-> 0, total_authority_records |-> 0,
     total_additional_records |-> 0]

\* Mutant of Header_flags_hi: the opcode is shifted by 4 instead of 3.
Header_flags_hi_ShiftedOpcode(h) ==
    BitOr(BitOr(BitOr(BitOr(BoolAsU8(h.recursion_desired),
                            Shl(BoolAsU8(h.truncated), 1, 8)),
                      Shl(BoolAsU8(h.authoritative_answer), 2, 8)),
                Shl(OpCode_as_u8(h.opcode), 4, 8)),
          Shl(BoolAsU8(h.is_response), 7, 8))

\* The first flag byte as Header::serialize packs it.
Header_flags_hi(h) ==
    BitOr(BitOr(BitOr(BitOr(BoolAsU8(h.recursion_desired),
                            Shl(BoolAsU8(h.truncated), 1, 8)),
                      Shl(BoolAsU8(h.authoritative_answer), 2, 8)),
                Shl(OpCode_as_u8(h.opcode), 3, 8)),
          Shl(BoolAsU8(h.is_response), 7, 8))

\* The second flag byte as Header::serialize packs it.
Header_flags_lo(h) ==
    BitOr(BitOr(BitOr(BitOr(ResultCode_as_u8(h.result_code),
                            Shl(BoolAsU8(h.checking_disabled), 4, 8)),
                      Shl(BoolAsU8(h.authenticated_data), 5, 8)),
                Shl(BoolAsU8(h.z), 6, 8)),
          Shl(BoolAsU8(h.recursion_available), 7, 8))

Header_serialize(b, h) ==
    LET r1 == serialize_u16(b, h.id)
    IN  IF r1.kind # "ok" THEN r1 ELSE
        LET r2 == serialize_u8(r1.b, Header_flags_hi(h))
        IN  IF r2.kind # "ok" THEN r2 ELSE
            LET r3 == serialize_u8(r2.b, Header_flags_lo(h))
            IN  IF r3.kind # "ok" THEN r3 ELSE
                LET r4 == serialize_u16(r3.b, h.total_questions)
                IN  IF r4.kind # "ok" THEN r4 ELSE
                    LET r5 == serialize_u16(r4.b, h.total_answer_records)
                    IN  IF r5.kind # "ok" THEN r5 ELSE
                        LET r6 == serialize_u16(r5.b, h.total_authority_records)
                        IN  IF r6.kind # "ok" THEN r6
                            ELSE serialize_u16(r6.b, h.total_additional_records)

Header_from_buffer(b) ==
    LET r1 == read_u16(b)
    IN  IF r1.kind # "ok" THEN r1 ELSE
        LET r2 == read_u8(r1.b)
        IN  IF r2.kind # "ok" THEN r2 ELSE
            LET r3 == read_u8(r2.b)
            IN  IF r3.kind # "ok" THEN r3 ELSE
                LET r4 == read_u16(r3.b)
                IN  IF r4.kind # "ok" THEN r4 ELSE
                    LET r5 == read_u16(r4.b)
                    IN  IF r5.kind # "ok" THEN r5 ELSE
                        LET r6 == read_u16(r5.b)
                        IN  IF r6.kind # "ok" THEN r6 ELSE
                            LET r7 == read_u16(r6.b)
                            IN  IF r7.kind # "ok" THEN r7 ELSE
    Ok(r7.b,
       [id |-> r1.val,
        is_response |-> Shr(r2.val, 7) > 0,
        opcode |-> OpCode_from_u8(BitAnd(Shr(r2.val, 3), 15)),
        authoritative_answer |-> BitAnd(r2.val, Shl(1, 2, 8)) > 0,
        truncated |-> BitAnd(r2.val, Shl(1, 1, 8)) > 0,
        recursion_desired |-> BitAnd(r2.val, 1) > 0,
        recursion_available |-> Shr(r3.val, 7) > 0,
        z |-> BitAnd(r3.val, Shl(1, 6, 8)) > 0,
        authenticated_data |-> BitAnd(r3.val, Shl(1, 5, 8)) > 0,
        checking_disabled |-> BitAnd(r3.val, Shl(1, 4, 8)) > 0,
        result_code |-> ResultCode_from_u8(BitAnd(r3.val, 15)),
        total_questions |-> r4.val,
        total_answer_records |-> r5.val,
        total_authority_records |-> r6.val,
        total_additional_records |-> r7.val])

(***************************************************************************)
(* protocol::packet and protocol::records                                  *)
(***************************************************************************)
QueryTypeNames ==
    <<"A", "AuthoritativeNameServer", "MailDestination", "MailForwarder",
      "CanonicalName", "StartOfAuthority", "Mailbox", "MailGroup",
      "MailRename", "Null", "WellKnownService", "DomainPointer",
      "HostInformation", "MailInformation", "MailExchange", "Text">>

\* A QueryType is [tag, num]; num is the payload of Unknown(num), else 0.
QueryType_from_u16(num) ==
    IF num \in 1..16 THEN [tag |-> QueryTypeNames[num], num |-> 0]
    ELSE [tag |-> "Unknown", num |-> num]

QueryType_as_u16(q) ==
    IF q.tag = "Unknown" THEN q.num
    ELSE CHOOSE n \in 1..16 : QueryTypeNames[n] = q.tag

\* Ipv4Addr::octets and Ipv4Addr::from(u32): big-endian.
octets(ip) == <<Shr(ip[1], 8), AsU8(ip[1]), Shr(ip[2], 8), AsU8(ip[2])>>

\* One call of the serializer, `serializer.serialize_<op>(v)`.
Field(op, v) == [op |-> op, v |-> v]

serialize_field(b, f) ==
    CASE f.op = "u8" -> serialize_u8(b, f.v)
      [] f.op = "u16" -> serialize_u16(b, f.v)
      [] f.op = "u32" -> serialize_u32(b, f.v)
      [] f.op = "qname" -> serialize_qname(b, f.v)

\* `serializer.serialize_..(..)?;` line after line: the calls are made in
\* order and the first one that fails returns its error.  r is the outcome
\* of the calls made so far.
RECURSIVE serialize_fields(_, _)
serialize_fields(r, fields) ==
    IF r.kind # "ok" \/ Len(fields) = 0 THEN r
    ELSE One({serialize_fields(next, Tail(fields)) :
                 next \in {serialize_field(r.b, Head(fields))}})

\* qname, type, class 1 and ttl: the fields every record serializer writes
\* first.  ttl.as_secs() as u32 keeps the low 32 bits, which is all a ttl
\* below 2^32 has.
preamble(domain, type, ttl) ==
    <<Field("qname", domain), Field("u16", type), Field("u16", 1),
      Field("u32", ttl)>>

A_serialize(b, record) ==
    LET o == octets(record.ip)
    IN  serialize_fields(Ok(b, Unit),
            preamble(record.domain, 1, record.ttl)
            \o <<Field("u16", 4), Field("u8", o[1]), Field("u8", o[2]),
                 Field("u8", o[3]), Field("u8", o[4])>>)

\* seek(size_pos), serialize_u16(payload_size as u16), seek(current_position).
patch_size(b, size_pos, payload_size) ==
    LET current_position == position(b)
        s1 == seek(b, size_pos)
    IN  IF s1.kind # "ok" THEN s1 ELSE
        LET w == serialize_u16(s1.b, AsU16(payload_size))
        IN  IF w.kind # "ok" THEN w
            ELSE seek(w.b, current_position)

\* AuthoritativeNameServer::serialize and CName::serialize are the same
\* code but for the type written (2 and 5) and the field holding the name.
name_record_serialize(b, domain, type, ttl, name) ==
    One({IF p.kind # "ok" THEN p ELSE
         One({IF r.kind # "ok" THEN r
              ELSE patch_size(r.b, position(p.b),
                              position(r.b) - (position(p.b) + 2)) :
                 r \in {serialize_fields(p, <<Field("u16", 0),
                                              Field("qname", name)>>)}}) :
            p \in {serialize_fields(Ok(b, Unit), preamble(domain, type, ttl))}})

AuthoritativeNameServer_serialize(b, record) ==
    name_record_serialize(b, record.domain, 2, record.ttl, record.ns_name)

CName_serialize(b, record) ==
    name_record_serialize(b, record.domain, 5, record.ttl, record.alias)

\* size_pos is position(p.b); payload_size is position() - size_pos + 2 here.
MailExchange_serialize(b, record) ==
    One({IF p.kind # "ok" THEN p ELSE
         One({IF r.kind # "ok" THEN r
              ELSE patch_size(r.b, position(p.b),
                              position(r.b) - position(p.b) + 2) :
                 r \in {serialize_fields(p, <<Field("u16", 0),
                                              Field("u16", record.preference),
                                              Field("qname", record.exchange)>>)}}) :
            p \in {serialize_fields(Ok(b, Unit),
                                    preamble(record.domain, 15, record.ttl))}})

\* impl Serialize for Record: every other variant (Unknown) writes nothing.
Record_serialize(b, record) ==
    CASE record.variant = "A" -> A_serialize(b, record)
      [] record.variant = "AuthoritativeNameServer" ->
            AuthoritativeNameServer_serialize(b, record)
      [] record.variant = "CanonicalName" -> CName_serialize(b, record)
      [] record.variant = "MailExchange" -> MailExchange_serialize(b, record)
      [] OTHER -> Ok(b, Unit)

\* One call `buf.read_<op>()`.
read_field(b, op) ==
    CASE op = "u8" -> read_u8(b)
      [] op = "u16" -> read_u16(b)
      [] op = "u32" -> read_u32(b)
      [] op = "qname" -> read_qname(b)

\* `let x = buf.read_..();` line after line: r is the outcome of the reads
\* made so far, its value the sequence of the values read; a read that
\* panics ends them.
RECURSIVE read_fields(_, _)
read_fields(r, ops) ==
    IF r.kind # "ok" \/ Len(ops) = 0 THEN r
    ELSE One({read_fields(IF f.kind = "ok" THEN Ok(f.b, Append(r.val, f.val))
                          ELSE f,
                          Tail(ops)) :
                 f \in {read_field(r.b, Head(ops))}})

\* The payload of a record, read after the fields of `head`: domain, type,
\* class, ttl and len.  Duration::from_secs(read_u32() as u64): the ttl
\* stays the u32 read.
Record_payload(b, head) ==
    LET domain == head[1]
        qtype == QueryType_from_u16(head[2])
        class == head[3]
        ttl == head[4]
        len == head[5]
    IN  CASE qtype.tag = "A" ->
              One({IF p.kind # "ok" THEN p
                   ELSE Ok(p.b, [variant |-> "A", domain |-> domain,
                                 class |-> class, ttl |-> ttl,
                                 ip |-> p.val[1]]) :
                      p \in {read_fields(Ok(b, <<>>), <<"u32">>)}})
          [] qtype.tag = "AuthoritativeNameServer" ->
              One({IF p.kind # "ok" THEN p
                   ELSE Ok(p.b, [variant |-> "AuthoritativeNameServer",
                                 domain |-> domain, class |-> class,
                                 ttl |-> ttl, ns_name |-> p.val[1]]) :
                      p \in {read_fields(Ok(b, <<>>), <<"qname">>)}})
          [] qtype.tag = "CanonicalName" ->
              One({IF p.kind # "ok" THEN p
                   ELSE Ok(p.b, [variant |-> "CanonicalName",
                                 domain |-> domain, class |-> class,
                                 ttl |-> ttl, alias |-> p.val[1]]) :
                      p \in {read_fields(Ok(b, <<>>), <<"qname">>)}})
          [] qtype.tag = "MailExchange" ->
              One({IF p.kind # "ok" THEN p
                   ELSE Ok(p.b, [variant |-> "MailExchange",
                                 domain |-> domain, class |-> class,
                                 ttl |-> ttl, preference |-> p.val[1],
                                 exchange |-> p.val[2]]) :
                      p \in {read_fields(Ok(b, <<>>), <<"u16", "qname">>)}})
          [] OTHER ->
              One({IF d.kind # "ok" THEN d
                   ELSE Ok(d.b, [variant |-> "Unknown", domain |-> domain,
                                 qtype |-> qtype, class |-> class,
                                 ttl |-> ttl, data |-> d.val]) :
                      d \in {read_n(b, len)}})

Record_from_buffer(b) ==
    One({IF h.kind # "ok" THEN h ELSE Record_payload(h.b, h.val) :
            h \in {read_fields(Ok(b, <<>>),
                               <<"qname", "u16", "u16", "u32", "u16">>)}})

\* impl Serialize for Question: the class written is always 1.
Question_serialize(b, question) ==
    serialize_fields(Ok(b, Unit),
                     <<Field("qname", question.name),
                       Field("u16", QueryType_as_u16(question.qtype)),
                       Field("u16", 1)>>)

Question_from_buffer(b) ==
    One({IF f.kind # "ok" THEN f
         ELSE Ok(f.b, [name |-> f.val[1],
                       qtype |-> QueryType_from_u16(f.val[2]),
                       _class |-> f.val[3]]) :
            f \in {read_fields(Ok(b, <<>>), <<"qname", "u16", "u16">>)}})

Packet_new ==
    [header |-> Header_new, questions |-> <<>>, answers |-> <<>>,
     authorities |-> <<>>, additionals |-> <<>>]

\* `for x in section.iter() { x.serialize(serializer)?; }`: section is
\* "questions" for Questions, any other name for Records.
RECURSIVE serialize_section(_, _, _)
serialize_section(r, section, items) ==
    IF r.kind # "ok" \/ Len(items) = 0 THEN r
    ELSE One({serialize_section(next, section, Tail(items)) :
                 next \in {IF section = "questions"
                           THEN Question_serialize(r.b, Head(items))
                           ELSE Record_serialize(r.b, Head(items))}})

\* impl Serialize for Packet: the header as it is stored, then the four
\* sequences.
Packet_serialize(b, packet) ==
    One({serialize_section(
             serialize_section(
                 serialize_section(
                     serialize_section(h, "questions", packet.questions),
                     "answers", packet.answers),
                 "authorities", packet.authorities),
             "additionals", packet.additionals) :
            h \in {Header_serialize(b, packet.header)}})

\* `for _ in 0..n { section.push(X::from_buffer(buf)); }`: r.val is the
\* sequence pushed so far.
RECURSIVE read_section(_, _, _)
read_section(r, section, n) ==
    IF r.kind # "ok" \/ n = 0 THEN r
    ELSE One({read_section(IF x.kind = "ok" THEN Ok(x.b, Append(r.val, x.val))
                           ELSE x,
                           section, n - 1) :
                 x \in {IF section = "questions"
                        THEN Question_from_buffer(r.b)
                        ELSE Record_from_buffer(r.b)}})

\* protocol::packet::Packet::from_buffer.
Packet_from_buffer(b) ==
    One({IF h.kind # "ok" THEN h ELSE
         One({IF q.kind # "ok" THEN q ELSE
              One({IF an.kind # "ok" THEN an ELSE
                   One({IF ns.kind # "ok" THEN ns ELSE
                        One({IF ar.kind # "ok" THEN ar
                             ELSE Ok(ar.b,
                                     [header |-> h.val, questions |-> q.val,
                                      answers |-> an.val,
                                      authorities |-> ns.val,
                                      additionals |-> ar.val]) :
                          ar \in {read_section(Ok(ns.b, <<>>), "additionals",
                                      h.val.total_additional_records)}}) :
                     ns \in {read_section(Ok(an.b, <<>>), "authorities",
                                 h.val.total_authority_records)}}) :
                an \in {read_section(Ok(q.b, <<>>), "answers",
                            h.val.total_answer_records)}}) :
           q \in {read_section(Ok(h.b, <<>>), "questions",
                      h.val.total_questions)}}) :
      h \in {Header_from_buffer(b)}})

(***************************************************************************)
(* dns::packet and dns::header, on dns::byte_packet_buffer                 *)
(***************************************************************************)
dns_read_u8(b) ==
    IF ~(b.pos < DEFAULT_BUFFER_SIZE) THEN Panic(b)
    ELSE Ok([b EXCEPT !.pos = @ + 1], At(b.buf, b.pos))

dns_read_n(b, len) ==
    IF ~(b.pos + len < DEFAULT_BUFFER_SIZE) THEN Panic(b)
    ELSE Ok([b EXCEPT !.pos = @ + len],
            [i \in 1..len |-> At(b.buf, b.pos + i - 1)])

dns_read_u16(b) ==
    One({IF hi.kind # "ok" THEN hi ELSE
         One({IF lo.kind # "ok" THEN lo
              ELSE Ok(lo.b, BitOr(Shl(hi.val, 8, 16), lo.val)) :
                 lo \in {dns_read_u8(hi.b)}}) :
            hi \in {dns_read_u8(b)}})

dns_read_u32(b) ==
    One({IF hi.kind # "ok" THEN hi ELSE
         One({IF lo.kind # "ok" THEN lo
              ELSE Ok(lo.b, U32(hi.val, lo.val)) :
                 lo \in {dns_read_u16(hi.b)}}) :
            hi \in {dns_read_u16(b)}})

dns_read_field(b, op) ==
    CASE op = "u8" -> dns_read_u8(b)
      [] op = "u16" -> dns_read_u16(b)
      [] op = "u32" -> dns_read_u32(b)
      [] op = "qname" -> dns_read_qname(b)

RECURSIVE dns_read_fields(_, _)
dns_read_fields(r, ops) ==
    IF r.kind # "ok" \/ Len(ops) = 0 THEN r
    ELSE One({dns_read_fields(IF f.kind = "ok"
                              THEN Ok(f.b, Append(r.val, f.val)) ELSE f,
                              Tail(ops)) :
                 f \in {dns_read_field(r.b, Head(ops))}})

\* dns::header::Header::from_buffer: the fourth count read is assigned to
\* total_authority_records again, total_additional_records keeps the 0 of
\* Header::new().
dns_Header_from_buffer(b) ==
    One({IF f.kind # "ok" THEN f
         ELSE Ok(f.b,
                 [id |-> f.val[1],
                  is_response |-> Shr(f.val[2], 7) > 0,
                  opcode |-> OpCode_from_u8(BitAnd(Shr(f.val[2], 3), 15)),
                  authoritative_answer |-> BitAnd(f.val[2], Shl(1, 2, 8)) > 0,
                  truncated |-> BitAnd(f.val[2], Shl(1, 1, 8)) > 0,
                  recursion_desired |-> BitAnd(f.val[2], 1) > 0,
                  recursion_available |-> Shr(f.val[3], 7) > 0,
                  z |-> BitAnd(f.val[3], Shl(1, 6, 8)) > 0,
                  authenticated_data |-> BitAnd(f.val[3], Shl(1, 5, 8)) > 0,
                  checking_disabled |-> BitAnd(f.val[3], Shl(1, 4, 8)) > 0,
                  result_code |-> ResultCode_from_u8(BitAnd(f.val[3], 15)),
                  total_questions |-> f.val[4],
                  total_answer_records |-> f.val[5],
                  total_authority_records |-> f.val[7],
                  total_additional_records |->
                      Header_new.total_additional_records]) :
            f \in {dns_read_fields(Ok(b, <<>>),
                       <<"u16", "u8", "u8", "u16", "u16", "u16", "u16">>)}})

dns_Question_from_buffer(b) ==
    One({IF f.kind # "ok" THEN f
         ELSE Ok(f.b, [name |-> f.val[1],
                       qtype |-> QueryType_from_u16(f.val[2]),
                       _class |-> f.val[3]]) :
            f \in {dns_read_fields(Ok(b, <<>>), <<"qname", "u16", "u16">>)}})

\* dns::packet::Record::from_buffer: the fields of protocol's records, read
\* with the dns buffer's methods.
dns_Record_from_buffer(b) ==
    One({IF h.kind # "ok" THEN h ELSE
         One({
         One({IF p.kind # "ok" THEN p
              ELSE Ok(p.b,
                      CASE t.tag = "A" ->
                               [variant |-> "A", domain |-> h.val[1],
                                class |-> h.val[3], ttl |-> h.val[4],
                                ip |-> p.val[1]]
                        [] t.tag = "AuthoritativeNameServer" ->
                               [variant |-> "AuthoritativeNameServer",
                                domain |-> h.val[1], class |-> h.val[3],
                                ttl |-> h.val[4], ns_name |-> p.val[1]]
                        [] t.tag = "CanonicalName" ->
                               [variant |-> "CanonicalName",
                                domain |-> h.val[1], class |-> h.val[3],
                                ttl |-> h.val[4], alias |-> p.val[1]]
                        [] t.tag = "MailExchange" ->
                               [variant |-> "MailExchange",
                                domain |-> h.val[1], class |-> h.val[3],
                                ttl |-> h.val[4], preference |-> p.val[1],
                                exchange |-> p.val[2]]
                        [] OTHER ->
                               [variant |-> "Unknown", domain |-> h.val[1],
                                qtype |-> t, class |-> h.val[3],
                                ttl |-> h.val[4], data |-> p.val]) :
                 p \in {CASE t.tag = "A" ->
                                dns_read_fields(Ok(h.b, <<>>), <<"u32">>)
                          [] t.tag \in {"AuthoritativeNameServer",
                                        "CanonicalName"} ->
                                dns_read_fields(Ok(h.b, <<>>), <<"qname">>)
                          [] t.tag = "MailExchange" ->
                                dns_read_fields(Ok(h.b, <<>>),
                                                <<"u16", "qname">>)
                          [] OTHER -> dns_read_n(h.b, h.val[5])}}) :
                 t \in {QueryType_from_u16(h.val[2])}}) :
            h \in {dns_read_fields(Ok(b, <<>>),
                       <<"qname", "u16", "u16", "u32", "u16">>)}})

RECURSIVE dns_read_section(_, _, _)
dns_read_section(r, section, n) ==
    IF r.kind # "ok" \/ n = 0 THEN r
    ELSE One({dns_read_section(IF x.kind = "ok"
                               THEN Ok(x.b, Append(r.val, x.val)) ELSE x,
                               section, n - 1) :
                 x \in {IF section = "questions"
                        THEN dns_Question_from_buffer(r.b)
                        ELSE dns_Record_from_buffer(r.b)}})

\* dns::packet::Packet::from_buffer: the questions and the answers are
\* read; authorities and additionals stay the empty vectors of Packet::new().
dns_Packet_from_buffer(b) ==
    One({IF h.kind # "ok" THEN h ELSE
         One({IF q.kind # "ok" THEN q ELSE
              One({IF an.kind # "ok" THEN an
                   ELSE Ok(an.b, [header |-> h.val, questions |-> q.val,
                                  answers |-> an.val,
                                  authorities |-> Packet_new.authorities,
                                  additionals |-> Packet_new.additionals]) :
                an \in {dns_read_section(Ok(q.b, <<>>), "answers",
                            h.val.total_answer_records)}}) :
           q \in {dns_read_section(Ok(h.b, <<>>), "questions",
                      h.val.total_questions)}}) :
      h \in {dns_Header_from_buffer(b)}})


(***************************************************************************)
(* resolver::resolver::Resolver and resolver::server::Handler              *)
(***************************************************************************)
\* const ROOT_SERVERS: the 13 addresses, a.root-servers.net first.
ROOT_SERVERS ==
    <<U32(50729, 4), U32(50953, 3785), U32(49185, 1036), U32(50951, 23309),
      U32(49355, 58890), U32(49157, 1521), U32(49264, 9220),
      U32(50785, 48693), U32(49188, 37905), U32(49210, 32798),
      U32(49408, 3713), U32(50951, 21290), U32(51724, 6945)>>

\* Query::new: the packet of an outbound query.
Query_new(id, qname, qtype, recursion_desired) ==
    [header |-> [Header_new EXCEPT !.id = id,
                                   !.recursion_desired = recursion_desired,
                                   !.authenticated_data = TRUE,
                                   !.total_questions = 1],
     questions |-> <<[name |-> qname, qtype |-> qtype, _class |-> 1]>>,
     answers |-> <<>>, authorities |-> <<>>, additionals |-> <<>>]

IsNS(record) == record.variant = "AuthoritativeNameServer"
IsA(record) == record.variant = "A"

\* Resolver::authoritative_name_servers: the NS records, in order.
authoritative_name_servers(records) == SelectSeq(records, IsNS)

\* `.filter(..).next()` over the A records of `records` whose owner is in
\* `keep`: the ip of the first one, Option<Ipv4Addr> as a set of at most one
\* address.
first_ip(records, keep) ==
    {records[i].ip : i \in {i \in DOMAIN records :
        /\ IsA(records[i]) /\ records[i].domain \in keep
        /\ \A j \in 1..(i - 1) :
              ~(IsA(records[j]) /\ records[j].domain \in keep)}}

\* The ip of the last such record.
last_ip(records, keep) ==
    {records[i].ip : i \in {i \in DOMAIN records :
        /\ IsA(records[i]) /\ records[i].domain \in keep
        /\ \A j \in (i + 1)..Len(records) :
              ~(IsA(records[j]) /\ records[j].domain \in keep)}}

\* Mutant of name_server_addr: the last matching A record is taken.
name_server_addr_Last(name_server, records) ==
    last_ip(records, {name_server})

\* Resolver::name_server_addr.
name_server_addr(name_server, records) == first_ip(records, {name_server})

\* The owner names of `records`.
owners(records) == {records[i].domain : i \in DOMAIN records}

\* What one iteration of the loop of recursive_lookup does with the
\* response that lookup returned, up to the point where it returns, loops
\* with a new server_ip ("next") or calls self.resolve for the name server
\* ("sub").
Outcome(kind, response, err, ip, name) ==
    [kind |-> kind, response |-> response, err |-> err, ip |-> ip,
     name |-> name]

NoIp == U32(0, 0)
ErrNxDomain == "The requested domain {} does not exist"
ErrNoNameServer ==
    "Recursion not available because no authoritative name servers"
ErrNoIp == "No recursion available because name server ip not found"
ErrIo == "io"

\* Mutant of found: a response whose answers hold no record of the type
\* asked for (a CNAME only) is not final.
found_WithAddress(response) ==
    /\ Len(SelectSeq(response.answers, IsA)) # 0
    /\ response.header.result_code = "NoError"

\* Line 72: the response answers the query.
found(response) ==
    /\ Len(response.answers) # 0
    /\ response.header.result_code = "NoError"

\* Mutant of not_exists: NXDomain is not told from the other codes.
not_exists_Never(response) == FALSE

\* Line 79.
not_exists(response) == response.header.result_code = "NxDomain"

\* Mutant of single_shot: only the resolver's flag is consulted.
single_shot_FlagOnly(recursive, recursion_desired) == ~recursive

\* Line 86.
single_shot(recursive, recursion_desired) == ~recursive \/ ~recursion_desired

\* recursive_lookup, lines 72-115 of one iteration.
recursive_lookup_iter(recursive, recursion_desired, response) ==
    IF found(response)
    THEN Outcome("ok", response, "", NoIp, <<>>)
    ELSE IF not_exists(response)
    THEN Outcome("err", response, ErrNxDomain, NoIp, <<>>)
    ELSE IF single_shot(recursive, recursion_desired)
    THEN Outcome("ok", response, "", NoIp, <<>>)
    ELSE IF Len(authoritative_name_servers(response.authorities)) = 0
    THEN Outcome("err", response, ErrNoNameServer, NoIp, <<>>)
    ELSE One({
         IF name_server_addr(ns.ns_name, response.additionals) # {}
         THEN Outcome("next", response, "",
                      One(name_server_addr(ns.ns_name, response.additionals)),
                      <<>>)
         ELSE Outcome("sub", response, "", NoIp, ns.ns_name) :
            ns \in {Head(authoritative_name_servers(response.authorities))}})

\* Mutant of sub_resolved: the last A record of the answers is taken.
sub_resolved_Last(ns_response) ==
    IF last_ip(ns_response.answers, owners(ns_response.answers)) # {}
    THEN Outcome("next", ns_response, "",
                 One(last_ip(ns_response.answers,
                             owners(ns_response.answers))), <<>>)
    ELSE Outcome("err", ns_response, ErrNoIp, NoIp, <<>>)

\* recursive_lookup, lines 115-126: what the caller does with the response
\* of self.resolve(&ns.ns_name, QueryType::A, true).
sub_resolved(ns_response) ==
    IF first_ip(ns_response.answers, owners(ns_response.answers)) # {}
    THEN Outcome("next", ns_response, "",
                 One(first_ip(ns_response.answers,
                              owners(ns_response.answers))), <<>>)
    ELSE Outcome("err", ns_response, ErrNoIp, NoIp, <<>>)

\* Mutant of Handler_stamp: the id of the resolver's response is kept.
Handler_stamp_KeepId(request, response, recursive) ==
    [response EXCEPT
        !.header.recursion_desired = request.header.recursion_desired,
        !.header.recursion_available = recursive,
        !.header.is_response = TRUE]

\* Handler::run, lines 97-100.
Handler_stamp(request, response, recursive) ==
    [response EXCEPT
        !.header.id = request.header.id,
        !.header.recursion_desired = request.header.recursion_desired,
        !.header.recursion_available = recursive,
        !.header.is_response = TRUE]

(***************************************************************************)
(* Scenario state shared by the specifications.                            *)
(***************************************************************************)
Buffer == [buf |-> buf, pos |-> pos]

NoRet == [kind |-> "none", val |-> Unit]
NoDst == qname_locals(new)

\* The buffer and the outcome a finished call leaves in the state.
Returned(r, next) ==
    /\ buf' = r.b.buf
    /\ pos' = r.b.pos
    /\ ret' = [kind |-> r.kind, val |-> r.val]
    /\ pc' = next

(***************************************************************************)
(* SpecHeader: a Header is serialized into a new buffer, the written bytes *)
(* are loaded with from_raw_data and decoded with Header::from_buffer.     *)
(***************************************************************************)
HeaderIds == {23099, 65535}
HeaderCounts == {<<1, 0, 0, 0>>, <<65535, 256, 255, 1>>}
OpCodes == {"Query", "IQuery", "Status"}
ResultCodes == {"NoError", "FormError", "ServerFailure", "NxDomain",
                "NotImplemented", "Refused"}

Headers ==
    {[id |-> i, is_response |-> f[1], opcode |-> o,
      authoritative_answer |-> f[2], truncated |-> f[3],
      recursion_desired |-> f[4], recursion_available |-> f[5],
      z |-> f[6], authenticated_data |-> f[7], checking_disabled |-> f[8],
      result_code |-> rc, total_questions |-> c[1],
      total_answer_records |-> c[2], total_authority_records |-> c[3],
      total_additional_records |-> c[4]] :
        i \in HeaderIds, f \in [1..8 -> BOOLEAN], o \in OpCodes,
        rc \in ResultCodes, c \in HeaderCounts}

InitHeader ==
    /\ buf = new.buf
    /\ pos = new.pos
    /\ pc = "new"
    /\ scn \in {[kind |-> "header", h |-> h] : h \in Headers}
    /\ pre = 0
    /\ ret = NoRet
    /\ dst = NoDst

HeaderSerialize ==
    /\ pc = "new"
    /\ pre' = pos
    /\ Returned(Header_serialize(Buffer, scn.h), "serialized")
    /\ UNCHANGED <<scn, dst>>

HeaderLoad ==
    /\ pc = "serialized"
    /\ ret.kind = "ok"
    /\ LET b == from_raw_data(bytes(Buffer))
       IN  buf' = b.buf /\ pos' = b.pos
    /\ pc' = "loaded"
    /\ UNCHANGED <<scn, pre, ret, dst>>

HeaderFromBuffer ==
    /\ pc = "loaded"
    /\ pre' = pos
    /\ Returned(Header_from_buffer(Buffer), "decoded")
    /\ UNCHANGED <<scn, dst>>

NextHeader == HeaderSerialize \/ HeaderLoad \/ HeaderFromBuffer

SpecHeader == InitHeader /\ [][NextHeader]_vars

\* C1: a Header serialized into an empty buffer takes exactly 12 bytes, and
\* Header::from_buffer on those bytes returns a Header equal to the original.
C1_HeaderRoundTrip ==
    /\ pc = "serialized" => ret.kind = "ok" /\ pre = 0 /\ pos = 12
    /\ pc = "decoded" => ret.kind = "ok" /\ ret.val = scn.h /\ pos = 12

\* A header with every flag set and distinct counts has gone round.
C1_Witness ==
    /\ pc = "decoded"
    /\ scn.h.z /\ scn.h.is_response /\ scn.h.checking_disabled
    /\ scn.h.opcode = "Status" /\ scn.h.result_code = "Refused"
    /\ scn.h.total_authority_records = 255
    /\ ret.kind = "ok" /\ ret.val.id = 23099

(***************************************************************************)
(* SpecQname: a qname decoder runs, one loop iteration per step, either on *)
(* a name that serialize_qname has just written ("encode") or on a packet  *)
(* loaded with from_raw_data ("packet").                                   *)
(***************************************************************************)
MaxLabels == 2
MaxChain == 2

\* A label of n copies of the character c.
Rep(c, n) == [i \in 1..n |-> c]

RECURSIVE Dotted(_)
Dotted(labels) ==
    IF Len(labels) = 1 THEN labels[1]
    ELSE labels[1] \o <<46>> \o Dotted(Tail(labels))

\* "www.google.com", "WwW.a", "ab"
www_google_com ==
    <<119, 119, 119, 46, 103, 111, 111, 103, 108, 101, 46, 99, 111, 109>>
WwW_a == <<87, 119, 87, 46, 97>>
ab == <<97, 98>>

\* Names of lower-case labels: label i is made of the i-th letter.
LabelLengths == {1, 2, 63}
ShapedNames ==
    UNION {{Dotted([i \in 1..k |-> Rep(96 + i, lens[i])]) :
               lens \in [1..k -> LabelLengths]} : k \in 1..MaxLabels}
\* 63 + 1 + 63 + 1 + 63 + 1 + 61 = 253 characters.
LongestName == Dotted(<<Rep(97, 63), Rep(98, 63), Rep(99, 63), Rep(100, 61)>>)
EncodeNames == ShapedNames \cup {www_google_com, LongestName}
EncodeStarts == {0, 12, 257, 258, 447, 448, 496, 497, 509, 510, 511, 512}

\* The bytes serialize_qname writes for a name, and for leading labels alone.
Enc(name) == bytes(serialize_qname(new, name).b)
EncLabels(prefix) ==
    IF prefix = <<>> THEN <<>> ELSE bytes(serialize_labels(new, split(prefix), 1).b)
\* A compression pointer to offset t.
Ptr(t) == <<192 + (t \div 256), t % 256>>

\* The datagram that holds each segment [at, bytes] and zeros elsewhere.
Place(segs) ==
    LET end == CHOOSE e \in {g.at + Len(g.bytes) : g \in segs} :
                   \A g \in segs : g.at + Len(g.bytes) <= e
    IN  [i \in 1..end |->
            IF \E g \in segs : g.at < i /\ i <= g.at + Len(g.bytes)
            THEN LET g == CHOOSE g \in segs : g.at < i /\ i <= g.at + Len(g.bytes)
                 IN  g.bytes[i - g.at]
            ELSE 0]

Decoders == {"deserialize_qname", "read_qname", "dns_read_qname"}

EncodeScenarios ==
    {[kind |-> "encode", decoder |-> d, name |-> n, start |-> s,
      data |-> <<>>, target |-> -1, prefix |-> <<>>, depth |-> 0] :
        d \in {"deserialize_qname", "read_qname"}, n \in EncodeNames,
        s \in EncodeStarts}

\* A name stored at `target`, then depth - 1 bare pointers, each to the
\* element before it, and at `start` the leading labels `prefix` followed by
\* a pointer to the last of these.
PointerNames == {www_google_com, WwW_a, ab}
PointerTargets == {0, 3, 255, 256, 300}
PointerPrefixes == {<<>>, ab, WwW_a}
PointerData(n, t, x, k, s) ==
    LET len == Len(Enc(n))
        chainAt(j) == t + len + 2 * (j - 1)
        chain == {[at |-> chainAt(j),
                   bytes |-> Ptr(IF j = 1 THEN t ELSE chainAt(j - 1))] :
                     j \in 1..(k - 1)}
        last == IF k = 1 THEN t ELSE chainAt(k - 1)
    IN  Place({[at |-> t, bytes |-> Enc(n)],
               [at |-> s, bytes |-> EncLabels(x) \o Ptr(last)]} \cup chain)
\* The starts of the decoded name: right after the chain, at the very end of
\* the buffer, and (when it fits) before the name it points to.
PointerStarts(n, t, x, k) ==
    LET after == t + Len(Enc(n)) + 2 * (k - 1)
        size == Len(EncLabels(x)) + 2
    IN  {after, DEFAULT_BUFFER_SIZE - size}
        \cup (IF size <= t THEN {0} ELSE {})
PointerScenarios ==
    UNION {{[kind |-> "pointer", decoder |-> d, name |-> c[1], start |-> s,
             data |-> PointerData(c[1], c[2], c[3], c[4], s), target |-> c[2],
             prefix |-> c[3], depth |-> c[4]] :
               d \in Decoders, s \in PointerStarts(c[1], c[2], c[3], c[4])} :
           c \in PointerNames \X PointerTargets \X PointerPrefixes
                    \X (1..MaxChain)}

\* Pointers that form a cycle: one to itself, two to each other, and a
\* pointer into such a pair.
CycleData == {Ptr(0), Ptr(2) \o Ptr(0), <<0, 0>> \o Ptr(2),
              Ptr(4) \o <<0, 0>> \o Ptr(6) \o Ptr(4)}
CycleScenarios ==
    {[kind |-> "cycle", decoder |-> d, name |-> <<>>, start |-> s,
      data |-> x, target |-> -1, prefix |-> <<>>, depth |-> 0] :
        d \in Decoders, x \in CycleData, s \in {0, 2}}

\* A pointer whose target offset is at or beyond the end of the buffer,
\* directly, after leading labels, or behind another pointer.
RangeTargets == {512, 513, 1000, 16383}
RangeData(t) ==
    {Ptr(t), EncLabels(ab) \o Ptr(t), Ptr(2) \o Ptr(t),
     Place({[at |-> 510, bytes |-> Ptr(t)]})}
RangeScenarios ==
    UNION {{[kind |-> "range", decoder |-> d, name |-> <<>>,
             start |-> IF Len(x) = DEFAULT_BUFFER_SIZE THEN 510 ELSE 0,
             data |-> x, target |-> t, prefix |-> <<>>, depth |-> 0] :
               d \in Decoders, x \in RangeData(t)} : t \in RangeTargets}

\* Two names without pointers stored one after the other from `start`:
\* `name`, then `prefix` (here the second name); the last start makes the
\* second name end with the buffer.
SequenceNames == {www_google_com, WwW_a, ab}
SequenceScenarios ==
    UNION {{[kind |-> "sequence", decoder |-> d, name |-> n[1], start |-> s,
             data |-> Place({[at |-> s, bytes |-> Enc(n[1]) \o Enc(n[2])]}),
             target |-> -1, prefix |-> n[2], depth |-> 0] :
               d \in Decoders,
               s \in {0, 12, DEFAULT_BUFFER_SIZE
                                - Len(Enc(n[1])) - Len(Enc(n[2]))}} :
           n \in SequenceNames \X SequenceNames}

\* A single label whose length byte is beyond 63 without being a pointer
\* (top bits 01 or 10), followed by the terminating zero; `name` is the
\* label's characters.
LongLabelLengths == {64, 65, 128, 191}
LongLabelScenarios ==
    {[kind |-> "label", decoder |-> d, name |-> Rep(97, n), start |-> s,
      data |-> Place({[at |-> s, bytes |-> <<n>> \o Rep(97, n) \o <<0>>]}),
      target |-> -1, prefix |-> <<>>, depth |-> 0] :
        d \in Decoders, n \in LongLabelLengths, s \in {0, 12}}

\* Names serialize_qname is given beside those of EncodeNames: a label of
\* more than 63 bytes (alone or after "ab"), the empty string, and names
\* that end with '.'.
OverlongNames ==
    {Rep(97, n) : n \in {64, 192, 255, 256, 257}}
        \cup {ab \o <<46>> \o Rep(98, 64)}
RootedNames == {<<>>, <<97, 46>>, www_google_com \o <<46>>}
WriteScenarios ==
    {[kind |-> "write", decoder |-> d, name |-> n, start |-> s,
      data |-> <<>>, target |-> -1, prefix |-> <<>>, depth |-> 0] :
        d \in {"deserialize_qname", "read_qname"},
        n \in OverlongNames \cup RootedNames, s \in {0, 12}}

\* The first byte of a pointer in the last byte of the buffer, alone or
\* after the label "ab".
EdgeScenarios ==
    {[kind |-> "edge", decoder |-> d, name |-> <<>>, start |-> 511 - Len(x),
      data |-> Place({[at |-> 511 - Len(x), bytes |-> x \o <<192>>]}),
      target |-> -1, prefix |-> <<>>, depth |-> 0] :
        d \in Decoders, x \in {<<>>, EncLabels(ab)}}

\* The scenario begins with serialize_qname on a new buffer.
Writes == scn.kind \in {"encode", "write"}

InitQname ==
    /\ scn \in EncodeScenarios \cup PointerScenarios \cup CycleScenarios
               \cup RangeScenarios \cup SequenceScenarios
               \cup LongLabelScenarios \cup WriteScenarios
               \cup EdgeScenarios
    /\ buf = new.buf
    /\ pos = IF Writes THEN scn.start ELSE 0
    /\ pc = "new"
    /\ pre = 0
    /\ ret = NoRet
    /\ dst = NoDst

\* serialize_qname(name) with the cursor at scn.start.
QnameSerialize ==
    /\ pc = "new" /\ Writes
    /\ pre' = pos
    /\ Returned(serialize_qname(Buffer, scn.name), "written")
    /\ UNCHANGED <<scn, dst>>

\* Back to where the name begins, to decode it.
QnameRewind ==
    /\ pc = "written" /\ ret.kind = "ok"
    /\ pos' = scn.start
    /\ pc' = "ready"
    /\ UNCHANGED <<buf, scn, pre, ret, dst>>

\* from_raw_data(datagram), the fields before scn.start being read already.
QnameLoad ==
    /\ pc = "new" /\ ~Writes
    /\ buf' = from_raw_data(scn.data).buf
    /\ pos' = scn.start
    /\ pc' = "ready"
    /\ UNCHANGED <<scn, pre, ret, dst>>

\* The decoder is called: its locals are initialised.
QnameCall ==
    /\ pc = "ready"
    /\ pre' = pos
    /\ dst' = qname_locals(Buffer)
    /\ pc' = "decoding"
    /\ UNCHANGED <<buf, pos, scn, ret>>

\* One iteration of the decoder's loop; the last one returns.
QnameIter ==
    /\ pc = "decoding"
    /\ LET r == qname_iter(scn.decoder, Buffer, dst)
       IN  /\ buf' = r.b.buf
           /\ pos' = r.b.pos
           /\ IF r.kind = "ok" /\ ~r.val.done
              THEN /\ dst' = [r.val EXCEPT !.turn = 1 - @]
                   /\ UNCHANGED <<pc, ret>>
              ELSE /\ pc' = "decoded"
                   /\ dst' = IF r.kind = "ok" THEN r.val ELSE dst
                   /\ ret' = [kind |-> r.kind,
                              val |-> IF r.kind = "ok" THEN r.val.out ELSE r.val]
    /\ UNCHANGED <<scn, pre>>

\* The first name of a sequence is decoded: the decoder is called again,
\* with the cursor where the first call left it.
QnameAgain ==
    /\ pc = "decoded" /\ scn.kind = "sequence"
    /\ ret.kind = "ok" /\ pre = scn.start
    /\ pc' = "ready"
    /\ UNCHANGED <<buf, pos, scn, pre, ret, dst>>

NextQname ==
    \/ QnameSerialize \/ QnameRewind \/ QnameLoad \/ QnameCall \/ QnameIter
    \/ QnameAgain

SpecQname == InitQname /\ [][NextQname]_vars

\* The decoder's steps are taken as long as it has one to take: a called
\* function keeps running.
SpecQnameFair == SpecQname /\ WF_vars(QnameIter)

\* C2: a name of non-empty lower-case labels (each at most 63 bytes, at most
\* 253 bytes in all) that serialize_qname has written is decoded, from the
\* position where writing began, to exactly that name; the write succeeds
\* whenever the encoding fits the buffer.
C2_QnameRoundTrip ==
    /\ (pc = "written" /\ scn.start + Len(scn.name) + 2 <= DEFAULT_BUFFER_SIZE)
           => ret.kind = "ok"
    /\ (pc = "decoded" /\ scn.kind = "encode")
           => ret.kind = "ok" /\ ret.val = scn.name

\* The 253-byte name, written so that it ends with the buffer, has gone round.
C2_Witness ==
    /\ pc = "decoded" /\ scn.kind = "encode"
    /\ scn.name = LongestName /\ scn.start = 257
    /\ ret.kind = "ok" /\ ret.val = LongestName

\* The leading labels, as decoded, in front of the pointee's name.
Join(prefix, name) ==
    IF prefix = <<>> THEN name
    ELSE IF name = <<>> THEN to_lowercase(prefix)
    ELSE to_lowercase(prefix) \o <<46>> \o name

\* The name at scn.target decoded inline by the scenario's decoder.
Inline == qname_decode(scn.decoder, [buf |-> buf, pos |-> scn.target])

\* C3: decoding a name that ends with a pointer to offset t (directly, after
\* leading labels, or through a pointer to a pointer) returns what decoding
\* the name at t inline returns, prefixed by the leading labels.
C3_PointerTransparency ==
    (pc = "decoded" /\ scn.kind = "pointer" /\ Inline.kind = "ok")
        => ret.kind = "ok" /\ ret.val = Join(scn.prefix, Inline.val)

\* "WwW.a" then a pointer to a pointer to "www.google.com" at offset 256.
C3_Witness ==
    /\ pc = "decoded" /\ scn.kind = "pointer"
    /\ scn.depth = 2 /\ scn.target = 256 /\ scn.prefix = WwW_a
    /\ scn.name = www_google_com
    /\ Inline.kind = "ok"
    /\ ret.kind = "ok" /\ Len(ret.val) = 20 /\ dst.last_ptr = 272

\* C4: when a decoder meets at least one pointer, the cursor after the call
\* is immediately after the first pointer met.
C4_CursorAfterFirstPointer ==
    (pc = "decoded" /\ ret.kind = "ok" /\ dst.first_ptr >= 0)
        => pos = dst.first_ptr + 2

\* C5: every call of a qname decoder returns, whatever the buffer holds.
C5_DecoderTerminates == (pc = "decoding") ~> (pc = "decoded")

\* C6: deserialize_qname on a name with a pointer whose target offset is at
\* or beyond 512 returns an error value: it neither panics nor returns a name.
C6_PointerOutOfRange ==
    (pc = "decoded" /\ scn.kind = "range" /\ scn.decoder = "deserialize_qname")
        => ret.kind = "err"

(***************************************************************************)
(* SpecBuffer: one read or write of the protocol crate's buffer, called    *)
(* with the cursor at any position from 0 to 512.                          *)
(***************************************************************************)
\* Datagrams: empty; one whose last label misses its last byte ("abc", "ab"
\* and a length byte 1 at index 511); one whose last label ends with the
\* buffer and has no terminator ("abc", then "ab" at 510..511).
BufferData(id) ==
    CASE id = "zeros" -> <<>>
      [] id = "open_label" ->
            Place({[at |-> 504, bytes |-> <<3, 97, 98, 99, 2, 97, 98, 1>>]})
      [] id = "full_label" ->
            Place({[at |-> 505, bytes |-> <<3, 97, 98, 99, 2, 97, 98>>]})

U8Values == {0, 222}
U16Values == {57005}
U32Values == {U32(57005, 48879)}
WriteNames == {ab, www_google_com}
ReadLengths == {0, 1, 4}

WriteOps == {"serialize_u8", "serialize_u16", "serialize_u32", "serialize_qname"}
ReadOps == {"deserialize_u8", "deserialize_u16", "deserialize_u32",
            "deserialize_qname", "read_u8", "read_u16", "read_u32", "read_n",
            "read_qname"}

InitBuffer ==
    /\ scn \in {[kind |-> "buffer", data |-> x, start |-> p, arg |-> 0] :
                   x \in {"zeros", "open_label", "full_label"},
                   p \in 0..DEFAULT_BUFFER_SIZE}
    /\ buf = new.buf
    /\ pos = new.pos
    /\ pc = "new"
    /\ pre = 0
    /\ ret = NoRet
    /\ dst = NoDst

\* from_raw_data(datagram), then the cursor is brought to scn.start.
BufferLoad ==
    /\ pc = "new"
    /\ Returned(seek(from_raw_data(BufferData(scn.data)), scn.start), "ready")
    /\ UNCHANGED <<scn, pre, dst>>

\* The call of operation op with argument a returns r.
Call(op, a, r) ==
    /\ pc = "ready"
    /\ pre' = pos
    /\ scn' = [scn EXCEPT !.arg = a]
    /\ Returned(r, op)
    /\ UNCHANGED dst

SerializeU8 == \E v \in U8Values : Call("serialize_u8", v, serialize_u8(Buffer, v))
SerializeU16 == \E v \in U16Values : Call("serialize_u16", v, serialize_u16(Buffer, v))
SerializeU32 == \E v \in U32Values : Call("serialize_u32", v, serialize_u32(Buffer, v))
SerializeQname == \E n \in WriteNames : Call("serialize_qname", n, serialize_qname(Buffer, n))
DeserializeU8 == Call("deserialize_u8", 0, deserialize_u8(Buffer))
DeserializeU16 == Call("deserialize_u16", 0, deserialize_u16(Buffer))
DeserializeU32 == Call("deserialize_u32", 0, deserialize_u32(Buffer))
DeserializeQname == Call("deserialize_qname", 0, deserialize_qname(Buffer))
ReadU8 == Call("read_u8", 0, read_u8(Buffer))
ReadU16 == Call("read_u16", 0, read_u16(Buffer))
ReadU32 == Call("read_u32", 0, read_u32(Buffer))
ReadN == \E len \in ReadLengths : Call("read_n", len, read_n(Buffer, len))
ReadQname == Call("read_qname", 0, read_qname(Buffer))

NextBuffer ==
    \/ BufferLoad
    \/ SerializeU8 \/ SerializeU16 \/ SerializeU32 \/ SerializeQname
    \/ DeserializeU8 \/ DeserializeU16 \/ DeserializeU32 \/ DeserializeQname
    \/ ReadU8 \/ ReadU16 \/ ReadU32 \/ ReadN \/ ReadQname

SpecBuffer == InitBuffer /\ [][NextBuffer]_vars

\* The number of bytes a write call has to write.
WriteWidth ==
    CASE pc = "serialize_u8" -> 1
      [] pc = "serialize_u16" -> 2
      [] pc = "serialize_u32" -> 4
      [] pc = "serialize_qname" -> Len(scn.arg) + 2

\* C7: a write that would make the cursor exceed 512 returns OutOfRange and
\* leaves the cursor where it was before the call.
C7_FailingWrites ==
    (pc \in WriteOps /\ pre + WriteWidth > DEFAULT_BUFFER_SIZE)
        => ret.kind = "err" /\ pos = pre

\* The call has to access an index at or beyond 512.  A name decoded from
\* inside or after the labels of the datagram runs off the buffer; before
\* them it meets a zero byte at once.
ReadsBeyond ==
    CASE pc \in {"deserialize_u8", "read_u8"} -> pre + 1 > DEFAULT_BUFFER_SIZE
      [] pc \in {"deserialize_u16", "read_u16"} -> pre + 2 > DEFAULT_BUFFER_SIZE
      [] pc \in {"deserialize_u32", "read_u32"} -> pre + 4 > DEFAULT_BUFFER_SIZE
      [] pc = "read_n" -> pre + scn.arg > DEFAULT_BUFFER_SIZE
      [] pc \in {"deserialize_qname", "read_qname"} ->
            \/ pre = DEFAULT_BUFFER_SIZE
            \/ scn.data = "open_label" /\ pre >= 504
            \/ scn.data = "full_label" /\ pre >= 505

\* C8: a read that would access an index at or beyond 512 fails with an
\* OutOfRange error value: it does not panic and returns no value.
C8_FailingReads ==
    (pc \in ReadOps /\ ReadsBeyond) => ret.kind = "err"

(***************************************************************************)
(* SpecRecord: a Record is serialized with the cursor at scn.start, the    *)
(* written bytes are loaded with from_raw_data and Record::from_buffer     *)
(* decodes them from scn.start.                                            *)
(***************************************************************************)
RecordNames == {ab, www_google_com}
RecordTtls == {U32(0, 60), U32(65535, 65535)}
RecordIps == {U32(32512, 1), U32(49320, 513)}
RecordPreferences == {10, 65535}
RecordTypes == {QueryType_from_u16(16), QueryType_from_u16(99)}
RecordPayloads == {<<>>, <<1, 2, 3>>}
RecordStarts == {0, 12, 494, 495}

Records ==
    {[variant |-> "A", domain |-> d, class |-> 1, ttl |-> t, ip |-> i] :
        d \in RecordNames, t \in RecordTtls, i \in RecordIps}
    \cup {[variant |-> "AuthoritativeNameServer", domain |-> d, class |-> 1,
           ttl |-> t, ns_name |-> n] :
             d \in RecordNames, t \in RecordTtls, n \in RecordNames}
    \cup {[variant |-> "CanonicalName", domain |-> d, class |-> 1, ttl |-> t,
           alias |-> n] :
             d \in RecordNames, t \in RecordTtls, n \in RecordNames}
    \cup {[variant |-> "MailExchange", domain |-> d, class |-> 1, ttl |-> t,
           preference |-> p, exchange |-> n] :
             d \in RecordNames, t \in RecordTtls, p \in RecordPreferences,
             n \in RecordNames}
    \cup {[variant |-> "Unknown", domain |-> d, qtype |-> q, class |-> 1,
           ttl |-> t, data |-> x] :
             d \in RecordNames, q \in RecordTypes, t \in RecordTtls,
             x \in RecordPayloads}

InitRecord ==
    /\ scn \in {[kind |-> "record", rec |-> r, start |-> p, end |-> -1] :
                   r \in Records, p \in RecordStarts}
    /\ buf = new.buf
    /\ pos = scn.start
    /\ pc = "new"
    /\ pre = 0
    /\ ret = NoRet
    /\ dst = NoDst

RecordSerialize ==
    /\ pc = "new"
    /\ pre' = pos
    /\ Returned(Record_serialize(Buffer, scn.rec), "serialized")
    /\ UNCHANGED <<scn, dst>>

\* from_raw_data(bytes()), the fields before scn.start being read already;
\* scn.end keeps where the written bytes end.
RecordLoad ==
    /\ pc = "serialized" /\ ret.kind = "ok"
    /\ buf' = from_raw_data(bytes(Buffer)).buf
    /\ pos' = scn.start
    /\ scn' = [scn EXCEPT !.end = pos]
    /\ pc' = "loaded"
    /\ UNCHANGED <<pre, ret, dst>>

RecordFromBuffer ==
    /\ pc = "loaded"
    /\ pre' = pos
    /\ Returned(Record_from_buffer(Buffer), "decoded")
    /\ UNCHANGED <<scn, dst>>

\* Where a record's rdlength field lies: after the owner name (the name's
\* length + 2 bytes), type, class and ttl.
SizePos == scn.start + Len(scn.rec.domain) + 2 + 8

\* Where set_u8, set_u16 and set_u32 are called: on the rdlength field and
\* at the end of the array.
SetPositions == {SizePos, 510, 511, 512}

\* A call set_<op>(at, value) on the buffer that holds the serialized
\* record; dst keeps the buffer as it was before the call.
RecordSet(op, at, r) ==
    /\ pc = "serialized" /\ ret.kind = "ok"
    /\ pre' = pos
    /\ dst' = [before |-> Buffer, at |-> at]
    /\ Returned(r, op)
    /\ UNCHANGED scn

RecordSetU8 ==
    \E at \in SetPositions, v \in U8Values :
        RecordSet("set_u8", at, set_u8(Buffer, at, v))
RecordSetU16 ==
    \E at \in SetPositions, v \in U16Values :
        RecordSet("set_u16", at, set_u16(Buffer, at, v))
RecordSetU32 ==
    \E at \in SetPositions, v \in U32Values :
        RecordSet("set_u32", at, set_u32(Buffer, at, v))

NextRecord ==
    \/ RecordSerialize \/ RecordLoad \/ RecordFromBuffer
    \/ RecordSetU8 \/ RecordSetU16 \/ RecordSetU32

SpecRecord == InitRecord /\ [][NextRecord]_vars

\* C9: a serialized Record of any variant is decoded by Record::from_buffer
\* to a record of the same variant, domain, ttl and payload, and the decoder
\* consumes exactly the bytes that were written.
C9_RecordRoundTrip ==
    pc = "decoded" =>
        /\ ret.kind = "ok"
        /\ ret.val.variant = scn.rec.variant
        /\ ret.val = scn.rec
        /\ pos = scn.end

\* The 16-bit big-endian word at offset p of the buffer.
U16At(p) == At(buf, p) * 256 + At(buf, p + 1)

\* C10: the rdlength written for an A, NS, CNAME or MX record is the number
\* of rdata bytes that follow it: 4 for A, the encoded length of the name
\* for NS and CNAME, 2 + the encoded length of the exchange for MX.
C10_RdLength ==
    (pc = "serialized" /\ ret.kind = "ok" /\ scn.rec.variant # "Unknown")
        => /\ U16At(SizePos) = pos - (SizePos + 2)
           /\ U16At(SizePos) =
                CASE scn.rec.variant = "A" -> 4
                  [] scn.rec.variant = "AuthoritativeNameServer" ->
                        Len(scn.rec.ns_name) + 2
                  [] scn.rec.variant = "CanonicalName" ->
                        Len(scn.rec.alias) + 2
                  [] scn.rec.variant = "MailExchange" ->
                        2 + Len(scn.rec.exchange) + 2

(***************************************************************************)
(* SpecPacket: a Packet is serialized into a new buffer, the written bytes *)
(* are loaded with from_raw_data and decoded with the Packet::from_buffer  *)
(* of the protocol crate or of the dns crate.  The fields of Packet are    *)
(* public: a packet's header counts are the lengths of its sequences       *)
(* ("lengths") or still those of Packet::new() after records were pushed   *)
(* ("new").                                                                *)
(***************************************************************************)
PacketQuestion(name, type) ==
    [name |-> name, qtype |-> QueryType_from_u16(type), _class |-> 1]

PacketRecordA(domain, ip) ==
    [variant |-> "A", domain |-> domain, class |-> 1, ttl |-> U32(0, 60),
     ip |-> ip]

PacketRecordNS(domain, ns_name) ==
    [variant |-> "AuthoritativeNameServer", domain |-> domain, class |-> 1,
     ttl |-> U32(0, 60), ns_name |-> ns_name]

PacketRecordCName(domain, alias) ==
    [variant |-> "CanonicalName", domain |-> domain, class |-> 1,
     ttl |-> U32(0, 60), alias |-> alias]

PacketQuestions ==
    {<<>>, <<PacketQuestion(www_google_com, 1)>>,
     <<PacketQuestion(www_google_com, 1), PacketQuestion(ab, 15)>>}

PacketAnswers ==
    {<<>>, <<PacketRecordA(www_google_com, U32(32512, 1))>>,
     <<PacketRecordCName(www_google_com, ab),
       PacketRecordA(ab, U32(49320, 513))>>}

PacketAuthorities ==
    {<<>>, <<PacketRecordNS(www_google_com, ab)>>,
     <<PacketRecordNS(ab, ab), PacketRecordNS(ab, www_google_com)>>}

PacketAdditionals ==
    {<<>>, <<PacketRecordA(ab, U32(32512, 1))>>,
     <<PacketRecordA(ab, U32(49320, 513)),
       PacketRecordA(www_google_com, U32(32512, 1))>>}

PacketCounts == {"lengths", "new"}
PacketCrates == {"protocol", "dns"}

Packets ==
    {[header |->
          IF c = "new" THEN Header_new
          ELSE [Header_new EXCEPT
                   !.total_questions = Len(q),
                   !.total_answer_records = Len(an),
                   !.total_authority_records = Len(ns),
                   !.total_additional_records = Len(ar)],
      questions |-> q, answers |-> an, authorities |-> ns,
      additionals |-> ar] :
        c \in PacketCounts, q \in PacketQuestions, an \in PacketAnswers,
        ns \in PacketAuthorities, ar \in PacketAdditionals}

InitPacket ==
    /\ scn \in {[kind |-> "packet", packet |-> p, crate |-> c] :
                   p \in Packets, c \in PacketCrates}
    /\ buf = new.buf
    /\ pos = new.pos
    /\ pc = "new"
    /\ pre = 0
    /\ ret = NoRet
    /\ dst = NoDst

PacketSerialize ==
    /\ pc = "new"
    /\ pre' = pos
    /\ Returned(Packet_serialize(Buffer, scn.packet), "serialized")
    /\ UNCHANGED <<scn, dst>>

PacketLoad ==
    /\ pc = "serialized" /\ ret.kind = "ok"
    /\ buf' = from_raw_data(bytes(Buffer)).buf
    /\ pos' = from_raw_data(bytes(Buffer)).pos
    /\ pre' = pos
    /\ pc' = "loaded"
    /\ UNCHANGED <<scn, ret, dst>>

PacketFromBuffer ==
    /\ pc = "loaded"
    /\ Returned(IF scn.crate = "dns" THEN dns_Packet_from_buffer(Buffer)
                ELSE Packet_from_buffer(Buffer),
                "decoded")
    /\ UNCHANGED <<scn, pre, dst>>

NextPacket == PacketSerialize \/ PacketLoad \/ PacketFromBuffer

SpecPacket == InitPacket /\ [][NextPacket]_vars

\* C11: after Packet::serialize of any Packet, also one whose header counts
\* differ from the lengths of its sequences, the four counts at bytes 4..12
\* of the output are the lengths of questions, answers, authorities and
\* additionals.
C11_CountsOnSerialize ==
    (pc = "serialized" /\ ret.kind = "ok") =>
        /\ U16At(4) = Len(scn.packet.questions)
        /\ U16At(6) = Len(scn.packet.answers)
        /\ U16At(8) = Len(scn.packet.authorities)
        /\ U16At(10) = Len(scn.packet.additionals)

\* The four counts of the datagram that Packet::from_buffer was given
\* (pre is its length).
Sent == [p \in {4, 6, 8, 10} |-> U16At(p)]

\* C12: Packet::from_buffer returns a Packet with as many questions,
\* answers, authorities and additionals as the counts qdcount, ancount,
\* nscount, arcount of the datagram say, and when the datagram's counts are
\* the lengths of the sections sent, every section holds the records sent
\* in it.
C12_CountsOnParse ==
    (pc = "decoded" /\ ret.kind = "ok") =>
        /\ Len(ret.val.questions) = Sent[4]
        /\ Len(ret.val.answers) = Sent[6]
        /\ Len(ret.val.authorities) = Sent[8]
        /\ Len(ret.val.additionals) = Sent[10]
        /\ scn.packet.header.total_questions = Len(scn.packet.questions)
            /\ scn.packet.header.total_answer_records = Len(scn.packet.answers)
            /\ scn.packet.header.total_authority_records =
                   Len(scn.packet.authorities)
            /\ scn.packet.header.total_additional_records =
                   Len(scn.packet.additionals)
           => /\ ret.val.questions = scn.packet.questions
              /\ ret.val.answers = scn.packet.answers
              /\ ret.val.authorities = scn.packet.authorities
              /\ ret.val.additionals = scn.packet.additionals


(***************************************************************************)
(* SpecServer: the listener has spawned a handler for a request datagram.  *)
(* The handler parses it and resolves its question; every upstream query   *)
(* is answered by any of the Responses, or lookup fails.  A step runs the  *)
(* handler from one receive to the next: pc is "spawned", "waiting" (an    *)
(* upstream query is out), "sent" (the reply datagram is in buf) or        *)
(* "failed".  dst holds the handler's locals: the request, the question    *)
(* taken from it, the stack of the running recursive_lookup calls (the     *)
(* innermost last), the last query sent, the query before it (asked) and   *)
(* the response that lookup returned for asked.  pre counts the queries    *)
(* sent, up to MaxQueries.  dst.outstanding is a history field: the number *)
(* of queries sent whose response lookup has not returned.                 *)
(***************************************************************************)
MaxRoot == 2
MaxDepth == 2
MaxQueries == 3

w_com == <<119, 46, 99, 111, 109>>
com == <<99, 111, 109>>
org == <<111, 114, 103>>
a_com == <<97, 46, 99, 111, 109>>
b_ns == <<98, 46, 110, 115>>

Ip1234 == U32(258, 772)
Ip5678 == U32(1286, 1800)
Ip9999 == U32(2313, 2313)

\* A packet as lookup returns it: the header of an upstream server (v: one
\* of two headers that differ in id and flags), counts as from_buffer
\* leaves them.
Upstream(v, code, an, ns, ar) ==
    [header |-> [Header_new EXCEPT
                    !.id = IF v THEN 4660 ELSE 0,
                    !.is_response = v,
                    !.recursion_desired = v,
                    !.recursion_available = v,
                    !.authoritative_answer = ~v,
                    !.result_code = code,
                    !.total_answer_records = Len(an),
                    !.total_authority_records = Len(ns),
                    !.total_additional_records = Len(ar)],
     questions |-> <<>>, answers |-> an, authorities |-> ns,
     additionals |-> ar]

Glue == <<PacketRecordA(b_ns, Ip1234), PacketRecordA(a_com, Ip5678),
          PacketRecordA(a_com, Ip9999)>>

ResponseBodies ==
    {<<"NoError", <<PacketRecordA(w_com, Ip9999)>>, <<>>, <<>> >>,
     <<"NoError", <<PacketRecordCName(w_com, com), PacketRecordA(com, Ip1234),
                    PacketRecordA(com, Ip5678)>>,
                  <<PacketRecordNS(com, a_com)>>, Glue>>,
     <<"NoError", <<PacketRecordCName(w_com, com)>>, <<>>, <<>> >>,
     <<"NxDomain", <<>>, <<PacketRecordNS(com, a_com)>>, Glue>>,
     <<"ServerFailure", <<PacketRecordA(w_com, Ip9999)>>, <<>>, <<>> >>,
     <<"NoError", <<>>, <<PacketRecordNS(com, a_com)>>, Glue>>,
     <<"NoError", <<>>, <<PacketRecordNS(com, a_com)>>,
                  <<PacketRecordA(b_ns, Ip1234)>> >>,
     <<"NoError", <<>>,
                  <<PacketRecordCName(com, org), PacketRecordNS(org, b_ns),
                    PacketRecordNS(com, a_com)>>,
                  <<PacketRecordA(a_com, Ip5678),
                    PacketRecordA(b_ns, Ip1234)>> >>,
     <<"Refused", <<>>, <<>>, <<>> >>}

Responses ==
    {Upstream(v, x[1], x[2], x[3], x[4]) : v \in BOOLEAN, x \in ResponseBodies}

RequestQuestions ==
    {<<>>, <<PacketQuestion(w_com, 1)>>,
     <<PacketQuestion(com, 15), PacketQuestion(w_com, 1)>>}

\* The datagrams of the clients: standard queries with id 23099.
Requests ==
    {bytes(Packet_serialize(new,
               [Query_new(23099, <<>>, QueryType_from_u16(1), rd) EXCEPT
                   !.header.total_questions = Len(q),
                   !.questions = q]).b) :
        q \in RequestQuestions, rd \in BOOLEAN}

NoQuery ==
    [server_ip |-> NoIp, qname |-> <<>>, qtype |-> QueryType_from_u16(1),
     depth |-> 0, recursion_desired |-> FALSE]

NoQuestion == PacketQuestion(<<>>, 1)

\* The arguments and the local of a running recursive_lookup call.
Frame(qname, qtype, server_ip, recursion_desired) ==
    [qname |-> qname, qtype |-> qtype, server_ip |-> server_ip,
     recursion_desired |-> recursion_desired]

\* lookup, lines 156-162: the query that the innermost call sends.
QueryOf(stack) ==
    [server_ip |-> stack[Len(stack)].server_ip,
     qname |-> stack[Len(stack)].qname,
     qtype |-> stack[Len(stack)].qtype,
     depth |-> Len(stack),
     recursion_desired |-> stack[Len(stack)].recursion_desired]

InitServer ==
    /\ scn \in {[kind |-> "server", recursive |-> r, request_data |-> d] :
                   r \in BOOLEAN, d \in Requests}
    /\ buf = from_raw_data(scn.request_data).buf
    /\ pos = from_raw_data(scn.request_data).pos
    /\ pc = "spawned"
    /\ pre = 0
    /\ ret = [kind |-> "none", val |-> Packet_new, err |-> ""]
    /\ dst = [request |-> Packet_new, question |-> NoQuestion,
              stack |-> <<>>, query |-> NoQuery, asked |-> NoQuery,
              response |-> Packet_new, outstanding |-> 0]

\* The queries still out once lookup has returned `received` (Packet::new()
\* stands for no response).
Settled(received) ==
    IF pc = "waiting" /\ received # Packet_new
    THEN dst.outstanding - 1 ELSE dst.outstanding

\* The handler's task ends without a datagram: `?` in Handler::run.
\* `received` is the response the failing iteration had got, Packet::new()
\* when lookup itself failed.
Failed(received, err) ==
    /\ pc' = "failed"
    /\ ret' = [kind |-> "err", val |-> Packet_new, err |-> err]
    /\ dst' = [dst EXCEPT !.stack = <<>>, !.asked = dst.query,
                          !.response = received,
                          !.outstanding = Settled(received)]
    /\ UNCHANGED <<buf, pos, scn, pre>>

\* Handler::run, lines 96-107, with the response that resolve returned (or
\* Packet::new() when there was no question).
Respond(request, response, received) ==
    \E s \in {Packet_serialize(new,
                  Handler_stamp(request, response, scn.recursive))} :
        /\ ret' = [kind |-> s.kind, val |-> response, err |-> ""]
        /\ pc' = IF s.kind = "ok" THEN "sent" ELSE "failed"
        /\ buf' = s.b.buf
        /\ pos' = s.b.pos
        /\ dst' = [dst EXCEPT !.request = request, !.stack = <<>>,
                              !.asked = dst.query, !.response = received,
                              !.outstanding = Settled(received)]
        /\ UNCHANGED <<scn, pre>>

\* Mutant of LookupSent: the query is sent while the one before it is
\* still out (lookup returns without its recv).
LookupSent_Pipelined(request, question, stack, received) ==
    /\ dst' = [request |-> request, question |-> question, stack |-> stack,
               query |-> QueryOf(stack), asked |-> dst.query,
               response |-> received,
               outstanding |-> dst.outstanding + 1]
    /\ pre' = IF pre < MaxQueries THEN pre + 1 ELSE pre
    /\ pc' = "waiting"
    /\ UNCHANGED <<buf, pos, scn, ret>>

\* lookup sends the query of the innermost call of `stack` and waits for
\* the datagram of the server.
LookupSent(request, question, stack, received) ==
    /\ dst' = [request |-> request, question |-> question, stack |-> stack,
               query |-> QueryOf(stack), asked |-> dst.query,
               response |-> received,
               outstanding |-> Settled(received) + 1]
    /\ pre' = IF pre < MaxQueries THEN pre + 1 ELSE pre
    /\ pc' = "waiting"
    /\ UNCHANGED <<buf, pos, scn, ret>>

\* Handler::run up to the first receive: the request is parsed, its last
\* question popped, resolve picks a root server and lookup sends the query.
HandlerStart ==
    /\ pc = "spawned"
    /\ \E r \in {Packet_from_buffer(Buffer)} :
          IF r.kind # "ok" THEN Failed(Packet_new, "panic")
          ELSE IF Len(r.val.questions) = 0
          THEN Respond(r.val, Packet_new, Packet_new)
          ELSE \E root \in 1..MaxRoot,
                  question \in {r.val.questions[Len(r.val.questions)]} :
                  LookupSent([r.val EXCEPT !.questions =
                                 SubSeq(r.val.questions, 1,
                                        Len(r.val.questions) - 1)],
                             question,
                             <<Frame(question.name, question.qtype,
                                     ROOT_SERVERS[root],
                                     r.val.header.recursion_desired)>>,
                             Packet_new)

\* Mutant of Returned_to_caller: the caller goes on with the name and type
\* that the call for the name server was made with.
Returned_to_caller_Renamed(stack, ip) ==
    [SubSeq(stack, 1, Len(stack) - 1) EXCEPT
        ![Len(stack) - 1].server_ip = ip,
        ![Len(stack) - 1].qname = stack[Len(stack)].qname,
        ![Len(stack) - 1].qtype = stack[Len(stack)].qtype]

\* The stack after its innermost call has returned and the caller's
\* server_ip is set.
Returned_to_caller(stack, ip) ==
    [SubSeq(stack, 1, Len(stack) - 1) EXCEPT
        ![Len(stack) - 1].server_ip = ip]

\* lookup returns `response`: the rest of the iteration of the innermost
\* recursive_lookup and what follows it up to the next receive.  A call of
\* resolve for a name server is made only below MaxDepth running calls.
Receive ==
    /\ pc = "waiting"
    /\ \E response \in Responses :
       \E out \in {recursive_lookup_iter(
                       scn.recursive,
                       dst.stack[Len(dst.stack)].recursion_desired,
                       response)} :
          CASE out.kind = "err" -> Failed(response, out.err)
            [] out.kind = "next" ->
                  LookupSent(dst.request, dst.question,
                             [dst.stack EXCEPT
                                 ![Len(dst.stack)].server_ip = out.ip],
                             response)
            [] out.kind = "sub" ->
                  /\ Len(dst.stack) < MaxDepth
                  /\ \E root \in 1..MaxRoot :
                        LookupSent(dst.request, dst.question,
                                   Append(dst.stack,
                                          Frame(out.name,
                                                QueryType_from_u16(1),
                                                ROOT_SERVERS[root], TRUE)),
                                   response)
            [] out.kind = "ok" /\ Len(dst.stack) = 1 ->
                  Respond(dst.request, out.response, response)
            [] out.kind = "ok" /\ Len(dst.stack) > 1 ->
                  \E back \in {sub_resolved(out.response)} :
                      IF back.kind = "err" THEN Failed(response, back.err)
                      ELSE LookupSent(dst.request, dst.question,
                                      Returned_to_caller(dst.stack, back.ip),
                                      response)

\* lookup fails: bind, send_to or recv returns an error.
LookupFails ==
    /\ pc = "waiting"
    /\ Failed(Packet_new, ErrIo)

NextServer == HandlerStart \/ Receive \/ LookupFails

SpecServer == InitServer /\ [][NextServer]_vars

\* recv blocks until the datagram of the server is there: a handler that
\* waits goes on.
SpecServerFair == SpecServer /\ WF_vars(LookupFails \/ Receive)


\* x is the end of y: str::ends_with.
IsSuffix(x, y) ==
    Len(x) <= Len(y) /\ SubSeq(y, Len(y) - Len(x) + 1, Len(y)) = x

Least(S) == CHOOSE i \in S : \A j \in S : i <= j

\* The last response received has answers and rcode NoError.
Answered ==
    /\ Len(dst.response.answers) # 0
    /\ dst.response.header.result_code = "NoError"

\* The handler has finished: no upstream query is out.
Finished == pc \in {"sent", "failed"}

\* C13: a response with a non-empty answer section and rcode NoError ends
\* the resolve call it was received in: no further query of that call is
\* sent, and the call at the top returns the response unchanged, header and
\* four sections, also when its only answer is a CNAME for an A query.
C13_Success ==
    Answered =>
        /\ dst.asked.depth = 1 =>
              /\ pc = "sent" /\ ret.kind = "ok"
              /\ ret.val = dst.response
        /\ (dst.asked.depth > 1 /\ ~Finished) =>
              dst.query.depth = dst.asked.depth - 1

\* The second hop's response, a lone CNAME for an A query, was returned.
C13_Witness ==
    /\ pc = "sent" /\ pre = 2
    /\ dst.question.qtype.tag = "A"
    /\ Len(dst.response.answers) = 1
    /\ dst.response.answers[1].variant = "CanonicalName"
    /\ ret.val.answers = dst.response.answers

\* C14: a response with rcode NXDomain, at any hop and in any call, ends
\* the resolution: no further query is sent and the handler's resolve fails
\* with the domain-does-not-exist error.
C14_NxDomain ==
    dst.response.header.result_code = "NxDomain" =>
        /\ pc = "failed"
        /\ ret.kind = "err"
        /\ ret.err = "The requested domain {} does not exist"

\* NXDomain came in the resolution of a name server's address.
C14_Witness ==
    /\ dst.response.header.result_code = "NxDomain"
    /\ dst.asked.depth = 2
    /\ pc = "failed"

\* The recursion_desired bit of the request datagram.
RequestRd == scn.request_data[3] % 2 = 1

\* The last response received is a referral: no answers, NS records in the
\* authority section.
IsReferral ==
    /\ Len(dst.response.answers) = 0
    /\ dst.response.header.result_code # "NxDomain"
    /\ \E i \in DOMAIN dst.response.authorities :
          dst.response.authorities[i].variant = "AuthoritativeNameServer"

\* C15: when the resolver's recursive flag or the request's
\* recursion_desired is false, one query is sent, to a root server, and the
\* response to it ends resolve; a referral is returned as it is.
C15_SingleShot ==
    (~scn.recursive \/ ~RequestRd) =>
        /\ pre <= 1
        /\ pre = 1 =>
              /\ \E i \in DOMAIN ROOT_SERVERS :
                    dst.query.server_ip = ROOT_SERVERS[i]
              /\ dst.query.depth = 1
        /\ pc = "waiting" => dst.asked.depth = 0
        /\ (Finished /\ IsReferral) =>
              /\ pc = "sent" /\ ret.kind = "ok"
              /\ ret.val = dst.response

\* A recursive resolver returned a referral to a request without
\* recursion_desired.
C15_Witness ==
    /\ scn.recursive /\ ~RequestRd
    /\ pc = "sent" /\ IsReferral /\ pre = 1
    /\ Len(ret.val.additionals) = 3

\* The referral case of recursive mode: the response is neither final nor
\* NXDomain and both the resolver and the call recurse.
RefersOn ==
    /\ IsReferral /\ ~Answered
    /\ scn.recursive /\ dst.asked.recursion_desired

\* The NS records of the referral, by position.
NsAt == {i \in DOMAIN dst.response.authorities :
            dst.response.authorities[i].variant = "AuthoritativeNameServer"}

\* Those whose owner is a suffix of the name asked for.
MatchingNsAt ==
    {i \in NsAt : IsSuffix(dst.response.authorities[i].domain,
                           dst.asked.qname)}

\* The positions of the A records of the additional section owned by name.
GlueAt(name) ==
    {i \in DOMAIN dst.response.additionals :
        /\ dst.response.additionals[i].variant = "A"
        /\ dst.response.additionals[i].domain = name}

\* The referral names one name server only, whichever way it is chosen:
\* its first NS record is also the first with a matching owner.
OneChoice == MatchingNsAt # {} /\ Least(NsAt) = Least(MatchingNsAt)

Target == dst.response.authorities[Least(NsAt)].ns_name

\* C16: in recursive mode, when the name server of a referral has A
\* records in the additional section, the next query goes to the address
\* of the first of them, for the same name and type, in the same call (no
\* resolution of the name server starts).
C16_GluePresent ==
    (RefersOn /\ OneChoice /\ GlueAt(Target) # {}) =>
        /\ pc = "waiting"
        /\ dst.query =
              [dst.asked EXCEPT
                  !.server_ip =
                      dst.response.additionals[Least(GlueAt(Target))].ip]

\* The glue is the second of three A records, the third has the same owner.
C16_Witness ==
    /\ RefersOn /\ OneChoice
    /\ GlueAt(Target) = {2, 3}
    /\ pc = "waiting"
    /\ dst.query.server_ip = Ip5678
    /\ dst.query.qname = w_com

\* The positions of the A records of the answers.
AnswerAt ==
    {i \in DOMAIN dst.response.answers :
        dst.response.answers[i].variant = "A"}

\* C17: in recursive mode, when the name server of a referral has no A
\* record in the additional section, the next query asks a root server for
\* the A records of the name server, in a call of its own; when that call
\* gets its answers, the next query is the caller's, for the caller's name
\* and type, to the address of the first A record of the answers, and
\* without an A record the resolution fails with the
\* no-recursion-available error.
C17_GlueAbsent ==
    /\ (RefersOn /\ OneChoice /\ GlueAt(Target) = {}) =>
          /\ pc = "waiting"
          /\ dst.query.qname = Target
          /\ dst.query.qtype = QueryType_from_u16(1)
          /\ dst.query.depth = dst.asked.depth + 1
          /\ \E i \in DOMAIN ROOT_SERVERS :
                dst.query.server_ip = ROOT_SERVERS[i]
    /\ (Answered /\ dst.asked.depth = 2) =>
          IF AnswerAt = {}
          THEN /\ pc = "failed"
               /\ ret.err =
                     "No recursion available because name server ip not found"
          ELSE /\ pc = "waiting"
               /\ dst.query.depth = 1
               /\ dst.query.qname = dst.question.name
               /\ dst.query.qtype = dst.question.qtype
               /\ dst.query.server_ip =
                     dst.response.answers[Least(AnswerAt)].ip

\* The name server's address came as the second of three answers, after a
\* CNAME, and the caller asks it.
C17_Witness ==
    /\ Answered /\ dst.asked.depth = 2
    /\ dst.asked.qname = a_com
    /\ AnswerAt = {2, 3}
    /\ pc = "waiting"
    /\ dst.query.server_ip = Ip1234
    /\ dst.query.qname = w_com

\* C18: resolve terminates whatever the upstream servers answer: a handler
\* that waits for an upstream response eventually sends its reply or fails.
C18_Terminates == (pc = "waiting") ~> Finished

\* C19: the name server followed in a referral is that of the first
\* authority record that is an NS record and whose owner is a suffix of the
\* name asked for: the next query goes to its glue address, or asks for its
\* address when it has no glue.
C19_ReferralChoice ==
    (RefersOn /\ MatchingNsAt # {}) =>
        \E ns \in {dst.response.authorities[Least(MatchingNsAt)]} :
            IF GlueAt(ns.ns_name) # {}
            THEN dst.query.server_ip =
                    dst.response.additionals[Least(GlueAt(ns.ns_name))].ip
            ELSE dst.query.qname = ns.ns_name

\* The request's id, the first two bytes of its datagram.
RequestId == scn.request_data[1] * 256 + scn.request_data[2]

\* C20: the datagram the handler sends carries the request's id, the
\* request's recursion_desired, recursion_available as the resolver's
\* recursive flag, and is_response set.
C20_HeaderStamping ==
    pc = "sent" =>
        /\ U16At(0) = RequestId
        /\ (At(buf, 2) % 2 = 1) = RequestRd
        /\ (At(buf, 3) \div 128 = 1) = scn.recursive
        /\ At(buf, 2) \div 128 = 1

\* The response of the resolver had another id and the three flags the
\* other way round.
C20_Witness ==
    /\ pc = "sent"
    /\ ret.val.header.id = 4660
    /\ ret.val.header.is_response /\ ret.val.header.recursion_desired
    /\ ret.val.header.recursion_available
    /\ ~RequestRd /\ ~scn.recursive
    /\ Len(ret.val.answers) = 1

\* The request as the handler parsed it from its datagram.
RequestPacket == Packet_from_buffer(from_raw_data(scn.request_data)).val

\* C21: for a request with two or more questions, the question the handler
\* gives to the resolver is the first of the question section.
C21_FirstQuestion ==
    (pc # "spawned" /\ Len(RequestPacket.questions) >= 2) =>
        dst.question = RequestPacket.questions[1]

\* resolve returned an error to the handler.
ResolverFailed ==
    /\ ret.kind = "err"
    /\ ret.err \in {ErrNxDomain, ErrNoNameServer, ErrNoIp, ErrIo}

\* C22: when resolve fails for a request that has a question, the handler
\* sends a reply datagram with the request's id, is_response set and rcode
\* NXDomain for an upstream NXDomain, ServFail for the other failures.
C22_ErrorsBecomeReplies ==
    ResolverFailed =>
        /\ pc = "sent"
        /\ U16At(0) = RequestId
        /\ At(buf, 2) \div 128 = 1
        /\ At(buf, 3) % 16 = (IF ret.err = ErrNxDomain THEN 3 ELSE 2)

(***************************************************************************)
(* SpecListener: Listener::run on one UDP socket and the handler tasks it  *)
(* spawns.  Clients 1..MaxClients send datagrams; the socket queues those  *)
(* it accepts.  pc is the accept loop: "accepting" (in recv_from),         *)
(* "connecting" (recv_from has returned, connect and spawn follow) or      *)
(* "stopped" (run has returned).  dst holds the socket (its receive queue  *)
(* and the peer it is connected to, 0 for none), the datagram recv_from    *)
(* returned, the tasks spawned so far and the datagrams sent, each with    *)
(* the address it went to.  A task is "spawned", "resolved" (resolve has   *)
(* returned a response), "sent", "failed" (run returned Err) or            *)
(* "panicked".  pre counts the datagrams of the clients.                   *)
(***************************************************************************)
MaxClients == 2
MaxDatagrams == 2

Clients == 1..MaxClients

\* The id of the requests of client c.
ClientId(c) == 23099 + c

\* The datagrams of client c: a query for w.com, a header alone, and a
\* question whose name is a pointer beyond the buffer.
ClientDatagrams(c) ==
    {bytes(Packet_serialize(new,
               Query_new(ClientId(c), w_com, QueryType_from_u16(1), TRUE)).b),
     bytes(Header_serialize(new,
               [Header_new EXCEPT !.id = ClientId(c)]).b),
     bytes(Header_serialize(new,
               [Header_new EXCEPT !.id = ClientId(c),
                                  !.total_questions = 1]).b)
        \o <<194, 0>>}

\* What resolve returns to a handler: a response of the upstream, or Err.
ResolveResults ==
    {[kind |-> "ok",
      val |-> Upstream(TRUE, "NoError", <<PacketRecordA(w_com, Ip9999)>>,
                       <<>>, <<>>)],
     [kind |-> "err", val |-> Packet_new]}

NoDatagram == [src |-> 0, data |-> <<>>]

Task(src, data, state, response) ==
    [src |-> src, request_data |-> data, state |-> state,
     response |-> response]

InitListener ==
    /\ scn \in {[kind |-> "listener", recursive |-> r] : r \in BOOLEAN}
    /\ buf = new.buf
    /\ pos = new.pos
    /\ pc = "accepting"
    /\ pre = 0
    /\ ret = [kind |-> "none", val |-> Packet_new, err |-> ""]
    /\ dst = [queue |-> <<>>, peer |-> 0, received |-> NoDatagram,
              tasks |-> <<>>, sent |-> <<>>]

\* A UDP socket that is connected takes datagrams of its peer only.
socket_takes(peer, src) == peer = 0 \/ peer = src

\* A datagram of client c reaches the host.
Arrive ==
    /\ pre < MaxDatagrams
    /\ \E c \in Clients : \E d \in ClientDatagrams(c) :
          /\ pre' = pre + 1
          /\ dst' = [dst EXCEPT !.queue =
                        IF socket_takes(dst.peer, c)
                        THEN Append(dst.queue, [src |-> c, data |-> d])
                        ELSE dst.queue]
          /\ UNCHANGED <<buf, pos, pc, scn, ret>>

\* Listener::run, line 49: recv_from returns the first datagram queued.
RecvFrom ==
    /\ pc = "accepting"
    /\ Len(dst.queue) > 0
    /\ pc' = "connecting"
    /\ dst' = [dst EXCEPT !.queue = Tail(dst.queue),
                          !.received = Head(dst.queue)]
    /\ UNCHANGED <<buf, pos, scn, pre, ret>>

\* Listener::run, lines 50-62: the shared socket is connected to the
\* sender and a task is spawned for the handler.
ConnectAndSpawn ==
    /\ pc = "connecting"
    /\ pc' = "accepting"
    /\ dst' = [dst EXCEPT
                  !.peer = dst.received.src,
                  !.received = NoDatagram,
                  !.tasks = Append(dst.tasks,
                                   Task(dst.received.src, dst.received.data,
                                        "spawned", Packet_new))]
    /\ UNCHANGED <<buf, pos, scn, pre, ret>>

\* recv_from or connect returns an error: `?` ends run.
AcceptFails ==
    /\ pc \in {"accepting", "connecting"}
    /\ pc' = "stopped"
    /\ dst' = [dst EXCEPT !.received = NoDatagram]
    /\ UNCHANGED <<buf, pos, scn, pre, ret>>

\* Mutant of spawned_task_ends: the handler is awaited by the accept loop
\* and its failure is handed on with `?`.
spawned_task_ends_Awaited(listener, state) ==
    IF state \in {"failed", "panicked"} THEN "stopped" ELSE listener

\* tokio::spawn, lines 58-62: the task runs detached; its error is logged,
\* its panic ends the task alone.  The accept loop stays where it is.
spawned_task_ends(listener, state) == listener

\* Task i moves to `state`, with `response` as its local.
TaskStep(i, state, response) ==
    /\ dst' = [dst EXCEPT !.tasks[i].state = state,
                          !.tasks[i].response = response]
    /\ pc' = spawned_task_ends(pc, state)
    /\ UNCHANGED <<buf, pos, scn, pre, ret>>

\* Handler::run, lines 78-94: the request is parsed and its question
\* resolved.
HandlerResolve ==
    \E i \in DOMAIN dst.tasks :
        /\ dst.tasks[i].state = "spawned"
        /\ \E r \in {Packet_from_buffer(
                        from_raw_data(dst.tasks[i].request_data))} :
              IF r.kind # "ok" THEN TaskStep(i, "panicked", Packet_new)
              ELSE IF Len(r.val.questions) = 0
              THEN TaskStep(i, "resolved", Packet_new)
              ELSE \E res \in ResolveResults :
                      TaskStep(i, IF res.kind = "ok" THEN "resolved"
                                  ELSE "failed", res.val)

\* Handler::run, lines 96-107: the response is stamped, serialized and
\* sent on the shared socket, which delivers it to the peer it is
\* connected to at that moment; send may fail.
HandlerSend ==
    \E i \in DOMAIN dst.tasks :
        /\ dst.tasks[i].state = "resolved"
        /\ \E request \in {Packet_from_buffer(
                              from_raw_data(dst.tasks[i].request_data)).val} :
           \E s \in {Packet_serialize(new,
                         Handler_stamp(request, dst.tasks[i].response,
                                       scn.recursive))},
              sends \in BOOLEAN :
              /\ dst' = [dst EXCEPT
                            !.tasks[i].state =
                                IF s.kind = "ok" /\ sends THEN "sent"
                                ELSE "failed",
                            !.sent =
                                IF s.kind = "ok" /\ sends
                                THEN Append(dst.sent,
                                            [to |-> dst.peer,
                                             data |-> bytes(s.b)])
                                ELSE dst.sent]
              /\ pc' = spawned_task_ends(pc,
                           IF s.kind = "ok" /\ sends THEN "sent"
                           ELSE "failed")
              /\ UNCHANGED <<buf, pos, scn, pre, ret>>

NextListener ==
    \/ Arrive
    \/ RecvFrom
    \/ ConnectAndSpawn
    \/ AcceptFails
    \/ HandlerResolve
    \/ HandlerSend

SpecListener == InitListener /\ [][NextListener]_vars

\* Task i has ended without sending its reply.
TaskFailed(tasks, i) == tasks[i].state \in {"failed", "panicked"}

\* C23: a handler task that fails (error or panic in parsing, resolving,
\* serializing or sending) leaves the accept loop as it is: its state, the
\* socket's queue and the datagram it holds are unchanged by the step, so
\* the datagrams that come later are received and dispatched as before.
C23_ListenerSurvives ==
    [][(\E i \in DOMAIN dst.tasks :
            ~TaskFailed(dst.tasks, i) /\ TaskFailed(dst'.tasks, i)) =>
          /\ pc' = pc
          /\ dst'.queue = dst.queue
          /\ dst'.received = dst.received
          /\ dst'.peer = dst.peer]_vars

\* The first task panicked on its datagram, the second failed, and the
\* accept loop is in recv_from again.
C23_Witness ==
    /\ Len(dst.tasks) = 2
    /\ dst.tasks[1].state = "panicked"
    /\ dst.tasks[2].state = "failed"
    /\ pc = "accepting"

\* The id of a datagram, its first two bytes.
IdOf(data) == data[1] * 256 + data[2]

\* C24: every response datagram is sent to the address its request came
\* from: the reply that carries the id of client c's requests goes to c.
C24_ReplyToRequester ==
    \A k \in DOMAIN dst.sent :
        ClientId(dst.sent[k].to) = IdOf(dst.sent[k].data)

(***************************************************************************)
(* SpecLookup: one call of Resolver::lookup(qname, qtype, server_ip).  pc  *)
(* is "called", "receiving" (the query is sent, the thread is in           *)
(* socket.recv) or "returned".  dst holds the datagram sent and its        *)
(* destination; buf and pos are the buffer lookup last worked on, ret is   *)
(* the Result<Packet> it returns.                                          *)
(***************************************************************************)
LookupNames == {w_com, a_com}
LookupTypes == {QueryType_from_u16(1), QueryType_from_u16(2)}
LookupServers == {ROOT_SERVERS[1], Ip1234}

\* get_random_id: some of the u16 values.
LookupIds == {0, 23099, 65535}

\* The datagrams an upstream server may answer with: responses with the
\* id of the query or another one, and a name that points beyond the
\* buffer.
LookupDatagrams(id) ==
    {bytes(Packet_serialize(new,
         [r EXCEPT !.header.id = IF same THEN id ELSE (id + 1) % 65536]).b) :
        r \in {Upstream(TRUE, x[1], x[2], x[3], x[4]) : x \in ResponseBodies},
        same \in BOOLEAN}
    \cup {bytes(Header_serialize(new,
                   [Header_new EXCEPT !.id = id, !.is_response = TRUE,
                                      !.total_questions = 1]).b)
             \o <<194, 0>>}

NoSent == [to |-> NoIp, port |-> 0, data |-> <<>>]

InitLookup ==
    /\ scn \in {[kind |-> "lookup", qname |-> n, qtype |-> t,
                 server_ip |-> s, id |-> i] :
                   n \in LookupNames, t \in LookupTypes,
                   s \in LookupServers, i \in LookupIds}
    /\ buf = new.buf
    /\ pos = new.pos
    /\ pc = "called"
    /\ pre = 0
    /\ ret = [kind |-> "none", val |-> Packet_new, err |-> ""]
    /\ dst = [sent |-> NoSent]

\* lookup returns.
LookupReturns(kind, val, err) ==
    /\ pc' = "returned"
    /\ ret' = [kind |-> kind, val |-> val, err |-> err]

\* lookup, lines 156-162: bind or send_to fails and `?` returns the error,
\* or the query is built, serialized and sent to port 53 of server_ip.
LookupSend ==
    /\ pc = "called"
    /\ \/ /\ LookupReturns("err", Packet_new, ErrIo)
          /\ UNCHANGED <<buf, pos, scn, pre, dst>>
       \/ \E s \in {Packet_serialize(new,
                        Query_new(scn.id, scn.qname, scn.qtype, TRUE))} :
             /\ s.kind = "ok"
             /\ buf' = s.b.buf
             /\ pos' = s.b.pos
             /\ dst' = [sent |-> [to |-> scn.server_ip, port |-> 53,
                                  data |-> bytes(s.b)]]
             /\ pc' = "receiving"
             /\ UNCHANGED <<scn, pre, ret>>

\* lookup, lines 164-167: recv returns a datagram, which is parsed.
LookupRecv ==
    /\ pc = "receiving"
    /\ \E data \in LookupDatagrams(scn.id) :
       \E r \in {Packet_from_buffer(from_raw_data(data))} :
          /\ buf' = r.b.buf
          /\ pos' = r.b.pos
          /\ IF r.kind = "ok" THEN LookupReturns("ok", r.val, "")
             ELSE LookupReturns("panic", Packet_new, "panic")
          /\ UNCHANGED <<scn, pre, dst>>

\* lookup, line 165: recv returns an error.
LookupRecvFails ==
    /\ pc = "receiving"
    /\ LookupReturns("err", Packet_new, ErrIo)
    /\ UNCHANGED <<buf, pos, scn, pre, dst>>

NextLookup == LookupSend \/ LookupRecv \/ LookupRecvFails

SpecLookup == InitLookup /\ [][NextLookup]_vars

\* The thread runs: a call that can go on does.  Nothing makes the
\* upstream server answer, and nothing makes recv fail.
SpecLookupFair == SpecLookup /\ WF_vars(LookupSend)

\* C25: a query that is never answered does not hold the resolution for
\* ever: the lookup that waits in recv eventually returns.
C25_UpstreamTimeout == (pc = "receiving") ~> (pc = "returned")

\* The bytes a set_<op> call stores.
SetWidth ==
    CASE pc = "set_u8" -> 1 [] pc = "set_u16" -> 2 [] pc = "set_u32" -> 4

\* The length of a record's encoding: owner name, type, class, ttl,
\* rdlength, and the rdata of an NS, CNAME or MX record.
NameRecordLen ==
    Len(scn.rec.domain) + 2 + 10 +
    CASE scn.rec.variant = "AuthoritativeNameServer" ->
            Len(scn.rec.ns_name) + 2
      [] scn.rec.variant = "CanonicalName" -> Len(scn.rec.alias) + 2
      [] scn.rec.variant = "MailExchange" -> 2 + Len(scn.rec.exchange) + 2

\* C26: set_u8, set_u16 and set_u32(at, value) leave the cursor and every
\* byte outside [at, at + width) as they were; and after the NS, CNAME and
\* MX encoders have written the rdlength back, the cursor is at the end of
\* the record's rdata.
C26_BackPatch ==
    /\ pc \in {"set_u8", "set_u16", "set_u32"} =>
          /\ pos = dst.before.pos
          /\ \A i \in 0..(DEFAULT_BUFFER_SIZE - 1) :
                (i < dst.at \/ i >= dst.at + SetWidth) =>
                    At(buf, i) = At(dst.before.buf, i)
    /\ (/\ pc = "serialized" /\ ret.kind = "ok"
        /\ scn.rec.variant \in {"AuthoritativeNameServer", "CanonicalName",
                                "MailExchange"}) =>
          /\ pos = scn.start + NameRecordLen
          /\ \A i \in pos..(DEFAULT_BUFFER_SIZE - 1) : At(buf, i) = 0

\* set_u16 has overwritten the rdlength of an MX record that does not
\* start at 0.
C26_Witness ==
    /\ pc = "set_u16" /\ ret.kind = "ok"
    /\ scn.rec.variant = "MailExchange" /\ scn.start = 12
    /\ dst.at = SizePos
    /\ U16At(SizePos) = 57005
    /\ buf # dst.before.buf
    /\ pos = scn.start + NameRecordLen

(***************************************************************************)
(* SpecHeaderBytes: twelve bytes off the wire are loaded with              *)
(* from_raw_data and decoded with the Header::from_buffer of the protocol  *)
(* crate or of the dns crate; the protocol crate's Header is then          *)
(* serialized into a new buffer.  scn.data keeps the bytes.                *)
(***************************************************************************)
\* Byte 2 with every OPCODE and the other bits clear, RD alone, or all set;
\* byte 3 with every RCODE and the other bits clear, AD alone, or all set.
WireFlagsHi == {opcode * 8 + rest : opcode \in 0..15, rest \in {0, 1, 135}}
WireFlagsLo == {rcode + rest : rcode \in 0..15, rest \in {0, 32, 240}}
WireCounts == {<<0, 1, 0, 0, 0, 0, 0, 0>>, <<1, 2, 3, 4, 5, 6, 7, 8>>}

WireHeaders ==
    {<<90, 59, hi, lo>> \o c :
        hi \in WireFlagsHi, lo \in WireFlagsLo, c \in WireCounts}

InitHeaderBytes ==
    /\ scn \in {[kind |-> "header_bytes", data |-> d, crate |-> c] :
                   d \in WireHeaders, c \in PacketCrates}
    /\ buf = new.buf
    /\ pos = new.pos
    /\ pc = "new"
    /\ pre = 0
    /\ ret = NoRet
    /\ dst = NoDst

HeaderBytesLoad ==
    /\ pc = "new"
    /\ buf' = from_raw_data(scn.data).buf
    /\ pos' = from_raw_data(scn.data).pos
    /\ pc' = "loaded"
    /\ UNCHANGED <<scn, pre, ret, dst>>

HeaderBytesDecode ==
    /\ pc = "loaded"
    /\ pre' = pos
    /\ Returned(IF scn.crate = "dns" THEN dns_Header_from_buffer(Buffer)
                ELSE Header_from_buffer(Buffer),
                "decoded")
    /\ UNCHANGED <<scn, dst>>

\* The decoded Header is serialized into BytePacketBuffer::new(); ret keeps
\* the Header.
HeaderBytesEncode ==
    /\ pc = "decoded" /\ ret.kind = "ok" /\ scn.crate = "protocol"
    /\ \E s \in {Header_serialize(new, ret.val)} :
          /\ s.kind = "ok"
          /\ buf' = s.b.buf
          /\ pos' = s.b.pos
    /\ pc' = "encoded"
    /\ UNCHANGED <<scn, pre, ret, dst>>

NextHeaderBytes == HeaderBytesLoad \/ HeaderBytesDecode \/ HeaderBytesEncode

SpecHeaderBytes == InitHeaderBytes /\ [][NextHeaderBytes]_vars

\* Bit n of byte k of the wire header (bit 0 the least significant).
WireBit(k, n) == (scn.data[k + 1] \div Pow2(n)) % 2 = 1
\* The 16-bit word at offset k of the wire header.
WireWord(k) == scn.data[k + 1] * 256 + scn.data[k + 2]
WireOpcode == (scn.data[3] \div 8) % 16
WireRcode == scn.data[4] % 16

\* C27: each Header decoder reads byte 2 as QR, OPCODE, AA, TC, RD, byte 3
\* as RA, Z, AD, CD, RCODE, and the words at 4, 6, 8, 10 as qdcount,
\* ancount, nscount, arcount; and the encoder writes the layout back:
\* 5a 3b 01 20 00 01 00 00 00 00 00 00 is id 23099, rd, ad, qdcount 1 and
\* is encoded to the same bytes.
C27_HeaderLayout ==
    /\ pc \in {"decoded", "encoded"} =>
          /\ ret.kind = "ok"
          /\ ret.val.id = WireWord(0)
          /\ ret.val.is_response = WireBit(2, 7)
          /\ ret.val.opcode = OpCode_from_u8(WireOpcode)
          /\ ret.val.authoritative_answer = WireBit(2, 2)
          /\ ret.val.truncated = WireBit(2, 1)
          /\ ret.val.recursion_desired = WireBit(2, 0)
          /\ ret.val.recursion_available = WireBit(3, 7)
          /\ ret.val.z = WireBit(3, 6)
          /\ ret.val.authenticated_data = WireBit(3, 5)
          /\ ret.val.checking_disabled = WireBit(3, 4)
          /\ ret.val.result_code = ResultCode_from_u8(WireRcode)
          /\ ret.val.total_questions = WireWord(4)
          /\ ret.val.total_answer_records = WireWord(6)
          /\ ret.val.total_authority_records = WireWord(8)
          /\ ret.val.total_additional_records = WireWord(10)
    /\ (pc = "encoded" /\ WireOpcode <= 2 /\ WireRcode <= 5) =>
          bytes(Buffer) = scn.data

\* C28: an OPCODE other than 1 and 2 is decoded as Query, an RCODE other
\* than 1..5 as NoError, and the decoder does not fail on them.
C28_UnknownCodes ==
    pc = "decoded" =>
        /\ ret.kind = "ok"
        /\ WireOpcode \notin {1, 2} => ret.val.opcode = "Query"
        /\ WireRcode \notin 1..5 => ret.val.result_code = "NoError"

\* OPCODE 15 and RCODE 15 were decoded, with every other bit set.
C28_Witness ==
    /\ pc = "decoded" /\ scn.crate = "protocol"
    /\ scn.data[3] = 255 /\ scn.data[4] = 255
    /\ ret.kind = "ok"
    /\ ret.val.opcode = "Query" /\ ret.val.result_code = "NoError"
    /\ ret.val.is_response /\ ret.val.recursion_desired

\* The call met no compression pointer.
PlainName == pc = "decoded" /\ ret.kind = "ok" /\ dst.first_ptr = -1

\* The bytes a name without pointers takes on the wire: a length byte per
\* label and the terminating zero, that is two more than its characters,
\* or the zero alone.
WireLen(name) == IF name = <<>> THEN 1 ELSE Len(name) + 2

\* C29: a qname decoder that meets no pointer leaves the cursor one byte
\* after the terminating zero, so that the second of two names stored one
\* after the other is decoded from where the first one ended.
C29_CursorAfterPlainName ==
    PlainName =>
        /\ pos = pre + WireLen(ret.val)
        /\ At(buf, pos - 1) = 0
        /\ (scn.kind = "sequence" /\ pre # scn.start) =>
              /\ pre = scn.start + WireLen(scn.name)
              /\ pos = pre + WireLen(scn.prefix)
              /\ Len(ret.val) = Len(scn.prefix)

\* "ab" was decoded behind "www.google.com", both stored from offset 12.
C29_Witness ==
    /\ PlainName /\ scn.kind = "sequence"
    /\ scn.decoder = "deserialize_qname"
    /\ scn.name = www_google_com /\ scn.prefix = ab /\ scn.start = 12
    /\ pre = 28 /\ pos = 32
    /\ ret.val = ab

\* C30: the string a qname decoder returns for labels of ASCII letters has
\* no upper-case letter, does not begin or end with '.', and has no two
\* '.' in a row.
C30_CaseAndDots ==
    (pc = "decoded" /\ ret.kind = "ok") =>
        /\ \A i \in DOMAIN ret.val : ret.val[i] < 65 \/ ret.val[i] > 90
        /\ ret.val # <<>> =>
              ret.val[1] # 46 /\ ret.val[Len(ret.val)] # 46
        /\ \A i \in 1..(Len(ret.val) - 1) :
              ~(ret.val[i] = 46 /\ ret.val[i + 1] = 46)

\* "WwW.a" was decoded as "www.a".
C30_Witness ==
    /\ pc = "decoded" /\ ret.kind = "ok"
    /\ scn.kind = "sequence" /\ scn.name = WwW_a
    /\ pre = scn.start
    /\ ret.val = <<119, 119, 119, 46, 97>>

\* The scenario's name has a label of more than 63 bytes.
HasLongLabel ==
    \E i \in DOMAIN split(scn.name) : Len(split(scn.name)[i]) > 63

\* C31: a qname decoder fails on a label-length byte in 64..191, and
\* serialize_qname fails on a name with a label longer than 63 bytes.
C31_LabelLimit ==
    /\ (pc = "decoded" /\ scn.kind = "label") => ret.kind = "err"
    /\ (pc = "written" /\ scn.kind = "write" /\ HasLongLabel)
           => ret.kind = "err"

\* The scenario's name ends with '.'.
EndsWithDot == scn.name # <<>> /\ scn.name[Len(scn.name)] = 46

\* C39: serialize_qname writes one terminating zero: len(s) + 2 bytes for a
\* non-empty name, one byte for the empty string, no zero-length label
\* before the terminator for a name ending with '.'; decoding the written
\* bytes consumes all of them and returns the name.
C39_OneTerminator ==
    /\ (pc = "written" /\ Writes /\ ret.kind = "ok" /\ ~HasLongLabel) =>
          /\ ~EndsWithDot => pos = pre + WireLen(scn.name)
          /\ At(buf, pos - 1) = 0
          /\ pos > pre + 1 => At(buf, pos - 2) # 0
    /\ (pc = "decoded" /\ Writes /\ ~HasLongLabel) =>
          /\ ret.kind = "ok"
          /\ pos = scn.start + Len(Enc(scn.name))
          /\ ~EndsWithDot => ret.val = scn.name

\* The last response received has no answers, an rcode other than NXDomain
\* and no NS record in its authority section, and the call that received it
\* runs in recursive mode.
NothingToFollow ==
    /\ dst.response # Packet_new
    /\ scn.recursive /\ dst.asked.recursion_desired
    /\ Len(dst.response.answers) = 0
    /\ dst.response.header.result_code # "NxDomain"
    /\ \A i \in DOMAIN dst.response.authorities :
          ~IsNS(dst.response.authorities[i])

\* C32: in recursive mode a response without answers, with an rcode other
\* than NXDomain and without an NS record to follow is returned by resolve
\* as a success: the call does not fail, and at the top the handler sends
\* that response.
C32_NoNameServer ==
    NothingToFollow =>
        /\ ~(pc = "failed" /\ ret.err = ErrNoNameServer)
        /\ dst.asked.depth = 1 =>
              pc = "sent" /\ ret.kind = "ok" /\ ret.val = dst.response

\* C33: within one resolution, sub-resolutions for name servers included,
\* at most one upstream query is out at any time, and a query after the
\* first is sent with the response to the one before it received and
\* parsed.
C33_SerialQueries ==
    /\ dst.outstanding \in {0, 1}
    /\ pc = "waiting" =>
          /\ dst.outstanding = 1
          /\ pre >= 2 => dst.response \in Responses

\* The third query, sent for a name server's address, is the only one out.
C33_Witness ==
    /\ pc = "waiting" /\ pre = 3
    /\ dst.query.depth = 2 /\ dst.asked.depth = 1
    /\ dst.response \in Responses
    /\ dst.outstanding = 1

\* lookup, line 159: the packet of the query that is out, its id aside.
QueryPacket == Query_new(0, dst.query.qname, dst.query.qtype, TRUE)

\* C37: every upstream query carries one question, with the name and type
\* its recursive_lookup call was given: those of the request's question in
\* the call at the top, and the same as in the query before it when that
\* one was sent by the same call; the packet has qdcount 1, is not a
\* response and has empty answer, authority and additional sections.
C37_QueryFixed ==
    pc = "waiting" =>
        /\ Len(QueryPacket.questions) = 1
        /\ QueryPacket.questions[1].name = dst.stack[Len(dst.stack)].qname
        /\ QueryPacket.questions[1].qtype = dst.stack[Len(dst.stack)].qtype
        /\ QueryPacket.header.total_questions = 1
        /\ ~QueryPacket.header.is_response
        /\ QueryPacket.answers = <<>> /\ QueryPacket.authorities = <<>>
        /\ QueryPacket.additionals = <<>>
        /\ QueryPacket.header.total_answer_records = 0
        /\ QueryPacket.header.total_authority_records = 0
        /\ QueryPacket.header.total_additional_records = 0
        /\ dst.query.depth = 1 =>
              /\ dst.query.qname = dst.question.name
              /\ dst.query.qtype = dst.question.qtype
        /\ dst.query.depth = dst.asked.depth =>
              /\ dst.query.qname = dst.asked.qname
              /\ dst.query.qtype = dst.asked.qtype

\* The call at the top sends its question again, to the address that the
\* resolution of a name server has found.
C37_Witness ==
    /\ pc = "waiting" /\ pre = 3
    /\ dst.query.depth = 1 /\ dst.asked.depth = 2
    /\ dst.query.qname = w_com
    /\ dst.query.server_ip \notin {ROOT_SERVERS[i] : i \in 1..MaxRoot}

\* C38: the packet lookup returns as the response carries the transaction
\* id of the query that lookup sent.
C38_ReplyMatchesQuery ==
    (pc = "returned" /\ ret.kind = "ok") => ret.val.header.id = scn.id

(***************************************************************************)
(* SpecSockets: two handler tasks that the listener has spawned run their  *)
(* resolutions at the same time; each resolution is a sequence of calls of *)
(* Resolver::lookup, and each call binds a UDP socket, sends its query,    *)
(* receives a datagram and drops the socket when it returns.  dst.holder   *)
(* is the task whose socket is bound to LOOKUP_PORT (0 when none is),      *)
(* dst.net the reply datagrams on their way to this host, each with the    *)
(* local port it is addressed to and the task whose query it answers;      *)
(* dst.tasks[t].got is the task whose reply t received last (0: none).     *)
(***************************************************************************)
MaxHops == 2

\* UdpSocket::bind("0.0.0.0:43053")
LOOKUP_PORT == 43053

Resolutions == {1, 2}

InitSockets ==
    /\ scn = [kind |-> "sockets"]
    /\ buf = new.buf
    /\ pos = new.pos
    /\ pc = "spawned"
    /\ pre = 0
    /\ ret = NoRet
    /\ dst = [holder |-> 0, net |-> {},
              tasks |-> [t \in Resolutions |->
                            [state |-> "idle", hops |-> 0, got |-> 0,
                             err |-> "none"]]]

\* lookup, line 157: bind fails when another socket holds the port (the
\* socket has no SO_REUSEADDR), and `?` ends the resolution.
SocketBind ==
    \E t \in Resolutions :
        /\ dst.tasks[t].state = "idle"
        /\ dst.tasks[t].hops < MaxHops
        /\ IF dst.holder # 0
           THEN dst' = [dst EXCEPT !.tasks[t].state = "failed",
                                   !.tasks[t].err = "bind"]
           ELSE dst' = [dst EXCEPT !.tasks[t].state = "bound",
                                   !.holder = t]
        /\ UNCHANGED <<buf, pos, pc, scn, pre, ret>>

\* lookup, lines 159-162: the query leaves from the bound port; the server
\* answers to the address the query came from.
SocketSend ==
    \E t \in Resolutions :
        /\ dst.tasks[t].state = "bound"
        /\ dst' = [dst EXCEPT
                      !.tasks[t].state = "receiving",
                      !.net = @ \cup {[port |-> LOOKUP_PORT, of |-> t,
                                       hop |-> dst.tasks[t].hops]}]
        /\ UNCHANGED <<buf, pos, pc, scn, pre, ret>>

\* lookup, lines 164-168: recv takes a datagram addressed to the socket's
\* port, the packet is returned and the socket dropped.
SocketRecv ==
    \E t \in Resolutions :
      \E d \in dst.net :
        /\ dst.tasks[t].state = "receiving"
        /\ d.port = LOOKUP_PORT
        /\ dst' = [dst EXCEPT
                      !.net = @ \ {d},
                      !.holder = 0,
                      !.tasks[t].got = d.of,
                      !.tasks[t].hops = @ + 1,
                      !.tasks[t].state =
                          IF dst.tasks[t].hops + 1 < MaxHops
                          THEN "idle" ELSE "done"]
        /\ UNCHANGED <<buf, pos, pc, scn, pre, ret>>

\* lookup, line 165: recv returns an error; the socket is dropped and `?`
\* ends the resolution.
SocketRecvFails ==
    \E t \in Resolutions :
        /\ dst.tasks[t].state = "receiving"
        /\ dst' = [dst EXCEPT !.holder = 0,
                              !.tasks[t].state = "failed",
                              !.tasks[t].err = "recv"]
        /\ UNCHANGED <<buf, pos, pc, scn, pre, ret>>

NextSockets == SocketBind \/ SocketSend \/ SocketRecv \/ SocketRecvFails

SpecSockets == InitSockets /\ [][NextSockets]_vars

\* C34: of two resolutions that run at the same time, neither has a bind
\* fail, and neither receives a reply to the other's query.
C34_IndependentSockets ==
    \A t \in Resolutions :
        /\ dst.tasks[t].err # "bind"
        /\ dst.tasks[t].got \in {0, t}

\* Positions given to seek.
SeekTargets == {0, 511, 512, 513, 1000}

\* C35: whatever the qname operations of either crate have done, succeeded
\* or failed, the cursor is in 0..512; and seek to a position above 512
\* fails with OutOfRange and leaves the cursor where it was.
C35_CursorRange ==
    /\ pos \in 0..DEFAULT_BUFFER_SIZE
    /\ \A p \in SeekTargets :
          p > DEFAULT_BUFFER_SIZE =>
              /\ seek(Buffer, p).kind = "err"
              /\ seek(Buffer, p).val = <<p, DEFAULT_BUFFER_SIZE>>
              /\ seek(Buffer, p).b.pos = pos

\* C36: an operation whose last accessed byte is byte 511 succeeds and
\* leaves the cursor at 512: a write of 1, 2 or 4 bytes at 512 - w,
\* read_n(len) with position + len = 512, and the access to a label that
\* ends with the buffer.
C36_LastByteUsable ==
    /\ (pc \in {"serialize_u8", "serialize_u16", "serialize_u32"}
            /\ pre + WriteWidth = DEFAULT_BUFFER_SIZE)
           => ret.kind = "ok" /\ pos = DEFAULT_BUFFER_SIZE
    /\ (pc = "read_n" /\ pre + scn.arg = DEFAULT_BUFFER_SIZE)
           => ret.kind = "ok" /\ pos = DEFAULT_BUFFER_SIZE
    /\ (pc = "ready" /\ scn.data = "full_label")
           => get_range(Buffer, 510, 2).kind = "ok"

(***************************************************************************)
(* SpecForward: the handler forwards what an upstream server answered.     *)
(* lookup receives the datagram scn.data and parses it, recursive_lookup   *)
(* returns the packet because it has answers and rcode NoError, and        *)
(* Handler::run stamps it, serializes it into a new buffer and sends it.   *)
(* pc is "receiving", "resolved", "sent" or "failed"; dst.response is the  *)
(* packet that resolve returned.                                           *)
(***************************************************************************)
MaxAnswers == 4

ForwardNames ==
    {w_com, www_google_com, Dotted(<<Rep(97, 63), Rep(98, 36)>>), LongestName}

\* An A record whose owner name is a pointer to the question's name, which
\* begins at offset 12: type 1, class 1, ttl 60, rdlength 4, 1.2.3.k.
CompressedA(k) == Ptr(12) \o <<0, 1, 0, 1, 0, 0, 0, 60, 0, 4, 1, 2, 3, k>>

\* What the upstream server answers with n A records for `name`: as a
\* packet, and as the datagram in which the records' names are compressed.
ForwardPacket(name, n) ==
    [Upstream(TRUE, "NoError",
              [k \in 1..n |-> PacketRecordA(name, U32(258, 768 + k))],
              <<>>, <<>>)
        EXCEPT !.header.total_questions = 1,
               !.questions = <<PacketQuestion(name, 1)>>]

RECURSIVE CompressedAnswers(_)
CompressedAnswers(n) ==
    IF n = 0 THEN <<>> ELSE CompressedAnswers(n - 1) \o CompressedA(n)

ForwardDatagram(name, n, compressed) ==
    IF compressed
    THEN bytes(Question_serialize(
                   Header_serialize(new, ForwardPacket(name, n).header).b,
                   PacketQuestion(name, 1)).b)
             \o CompressedAnswers(n)
    ELSE bytes(Packet_serialize(new, ForwardPacket(name, n)).b)

ForwardScenarios ==
    {x \in {[kind |-> "forward", name |-> name, answers |-> n,
             compressed |-> c, recursive |-> r,
             data |-> ForwardDatagram(name, n, c)] :
               name \in ForwardNames, n \in 1..MaxAnswers,
               c \in BOOLEAN, r \in BOOLEAN} :
        /\ Len(x.data) <= DEFAULT_BUFFER_SIZE
        /\ x.compressed
              \/ Packet_serialize(new, ForwardPacket(x.name, x.answers)).kind
                     = "ok"}

\* The request the handler holds: id 23099, RD set.
ForwardRequest ==
    [Packet_new EXCEPT !.header.id = 23099, !.header.recursion_desired = TRUE]

InitForward ==
    /\ scn \in ForwardScenarios
    /\ buf = new.buf
    /\ pos = new.pos
    /\ pc = "receiving"
    /\ pre = 0
    /\ ret = [kind |-> "none", val |-> Packet_new, err |-> ""]
    /\ dst = [response |-> Packet_new]

\* lookup, lines 164-167, and recursive_lookup, lines 72-74: the datagram
\* is parsed and the packet, which has answers and rcode NoError, returned.
ForwardResolve ==
    /\ pc = "receiving"
    /\ \E r \in {Packet_from_buffer(from_raw_data(scn.data))} :
          /\ r.kind = "ok" /\ found(r.val)
          /\ buf' = r.b.buf
          /\ pos' = r.b.pos
          /\ dst' = [response |-> r.val]
          /\ ret' = [kind |-> "ok", val |-> r.val, err |-> ""]
          /\ pc' = "resolved"
    /\ UNCHANGED <<scn, pre>>

\* Handler::run, lines 96-107: the header is stamped, the packet written
\* into a new buffer and sent; an error of serialize ends the task.
ForwardRespond ==
    /\ pc = "resolved"
    /\ \E s \in {Packet_serialize(new,
                     Handler_stamp(ForwardRequest, dst.response,
                                   scn.recursive))} :
          /\ buf' = s.b.buf
          /\ pos' = s.b.pos
          /\ ret' = [kind |-> s.kind, val |-> dst.response, err |-> ""]
          /\ pc' = IF s.kind = "ok" THEN "sent" ELSE "failed"
    /\ UNCHANGED <<scn, pre, dst>>

NextForward == ForwardResolve \/ ForwardRespond

SpecForward == InitForward /\ [][NextForward]_vars

\* C40: a response parsed from an upstream datagram of at most 512 bytes
\* and returned by the resolver is serialized by the handler without an
\* OutOfRange error, and the reply is sent.
C40_ForwardedFits ==
    (scn.kind = "forward" /\ pc \in {"sent", "failed"}) =>
        pc = "sent" /\ ret.kind = "ok"

====
